---- MODULE Spec2Model ----
(***************************************************************************)
(* VCN flow-log threat detection engine (scripts/vcn_analyzer.py).         *)
(*                                                                         *)
(* The module models VCNFlowAnalyzer: the normalizer _parse_flow_records,  *)
(* the five detectors, the confidence / severity policy, the statistics    *)
(* and the threat summary, and analyze_vcn_flows, which drives them.  It   *)
(* also models RITAAnalyzer (scripts/rita_analyzer.py): its three analyses *)
(* and get_threat_analytics_summary.                                       *)
(*                                                                         *)
(* Numbers.  Python computes the scores in binary floating point; here     *)
(* they are exact rationals <<n, d>> (d > 0, lowest terms), so a score is  *)
(* the real number the code's formula denotes.  Byte counts are integers,  *)
(* timestamps are whole seconds tagged with their time-zone awareness      *)
(* (Python refuses to compare or subtract an aware and a naive datetime).  *)
(***************************************************************************)
EXTENDS Integers, Sequences, FiniteSets, TLC

VARIABLES
    pc,                   \* the statement analyze_vcn_flows executes next
    time_period_minutes,  \* its argument
    upstream,             \* how the log query ends: "ok", "failed" or "raised"
    raw,                  \* the raw records the query returns when it succeeds
    now,                  \* the wall clock read during this call
    run,                  \* 1 for the first call, 2 for the repeated call
    prev,                 \* what the previous call returned
    flow_records, beacons, long_connections, exfiltration, port_scans,
    suspicious_dns, stats,   \* the locals of analyze_vcn_flows
    order,                \* the detectors called so far, in the order of the calls
    normalized,           \* the flow list as the normalizer returned it
    raised,               \* the step whose exception reached the handler, or ""
    result,               \* the value returned
    rita_call,            \* the method of RITAAnalyzer that was called, or "none"
    rita_pc,              \* the analysis the RITAAnalyzer call executes next
    rita_queries,         \* how the log query of each analysis ends
    beacon_result, long_conn_result, dns_result,   \* what the analyses returned
    rita_result           \* the value the RITAAnalyzer call returned

vars == <<pc, time_period_minutes, upstream, raw, now, run, prev, flow_records,
          beacons, long_connections, exfiltration, port_scans, suspicious_dns,
          stats, order, normalized, raised, result, rita_call, rita_pc,
          rita_queries, beacon_result, long_conn_result, dns_result, rita_result>>

\* The state of a RITAAnalyzer call (scripts/rita_analyzer.py); a call of
\* VCNFlowAnalyzer leaves it alone.
Rita == <<rita_call, rita_pc, rita_queries, beacon_result, long_conn_result,
          dns_result, rita_result>>

(***************************************************************************)
(* Exact rational arithmetic.                                              *)
(***************************************************************************)
Abs(x) == IF x < 0 THEN -x ELSE x

RECURSIVE GCD(_, _)
GCD(a, b) == IF b = 0 THEN a ELSE GCD(b, a % b)

\* What a division by zero leaves behind (Python raises ZeroDivisionError):
\* every operation below passes it on, and the detector that computed it
\* raises.
DivError == <<0, 0>>

\* n/d in lowest terms, d > 0.
R(n, d) ==
    LET g == GCD(Abs(n), d)
    IN  IF d = 0 THEN DivError
        ELSE IF n = 0 THEN <<0, 1>> ELSE <<n \div g, d \div g>>

Zero == <<0, 1>>
One == <<1, 1>>

RAdd(a, b) ==
    LET g == GCD(a[2], b[2])
    IN  IF a = DivError \/ b = DivError THEN DivError
        ELSE R(a[1] * (b[2] \div g) + b[1] * (a[2] \div g), (a[2] \div g) * b[2])

RMul(a, b) ==
    LET g1 == GCD(Abs(a[1]), b[2])
        g2 == GCD(Abs(b[1]), a[2])
    IN  IF a = DivError \/ b = DivError THEN DivError
        ELSE IF a[1] = 0 \/ b[1] = 0 THEN Zero
        ELSE <<(a[1] \div g1) * (b[1] \div g2), (a[2] \div g2) * (b[2] \div g1)>>

\* a / b for b >= 0.
RDiv(a, b) ==
    IF a = DivError \/ b = DivError \/ b[1] = 0 THEN DivError
    ELSE RMul(a, <<b[2], b[1]>>)

\* a < b on rationals, by comparing the integer parts and then the reciprocals
\* of the fractional parts (no cross-multiplication, so no large products).
RECURSIVE RLess(_, _)
RLess(a, b) ==
    LET qa == a[1] \div a[2]
        qb == b[1] \div b[2]
        ra == a[1] % a[2]
        rb == b[1] % b[2]
    IN  IF a = DivError \/ b = DivError THEN FALSE
        ELSE IF qa # qb THEN qa < qb
        ELSE IF rb = 0 THEN FALSE
        ELSE IF ra = 0 THEN TRUE
        ELSE RLess(<<b[2], rb>>, <<a[2], ra>>)

RLeq(a, b) == ~RLess(b, a)

RMin(a, b) == IF RLess(b, a) THEN b ELSE a

RMax(a, b) == IF RLess(a, b) THEN b ELSE a

\* int(x) for x >= 0: truncation.
RInt(a) == a[1] \div a[2]

(***************************************************************************)
(* Sequence helpers.                                                       *)
(***************************************************************************)
\* sum(s), by halves.
RECURSIVE SumRange(_, _, _)
SumRange(s, lo, hi) ==
    IF lo > hi THEN 0
    ELSE IF lo = hi THEN s[lo]
    ELSE LET mid == (lo + hi) \div 2
         IN  SumRange(s, lo, mid) + SumRange(s, mid + 1, hi)

SumSeq(s) == SumRange(s, 1, Len(s))

Range(s) == {s[i] : i \in DOMAIN s}

\* The elements of s at the positions I, in list order.
AtPositions(s, I) ==
    LET rank == [i \in I |-> Cardinality({j \in I : j <= i})]
    IN  [k \in 1..Cardinality(I) |-> s[CHOOSE i \in I : rank[i] = k]]

\* list.sort(key=..., reverse=desc) and sorted(): stable.  An element lands
\* behind every element whose key strictly precedes its own and behind the
\* earlier elements with an equal key (also when reversed).  Keys are rationals.
KeyBefore(x, y, desc) == IF desc THEN RLess(y, x) ELSE RLess(x, y)

SortedBy(s, keys, desc) ==
    LET place == [i \in 1..Len(s) |->
                     1 + Cardinality({j \in 1..Len(s) :
                                         \/ KeyBefore(keys[j], keys[i], desc)
                                         \/ j < i /\ keys[j] = keys[i]})]
    IN  [k \in 1..Len(s) |-> s[CHOOSE i \in 1..Len(s) : place[i] = k]]

Reverse(s) == [i \in 1..Len(s) |-> s[Len(s) + 1 - i]]

\* The distinct values of s in order of first occurrence: the key order of a
\* dict (or defaultdict) filled while iterating s.
KeysInOrder(s) ==
    AtPositions(s, {i \in 1..Len(s) : \A j \in 1..(i - 1) : s[j] # s[i]})

(***************************************************************************)
(* Thresholds and port classes (VCNFlowAnalyzer.__init__).                 *)
(***************************************************************************)
BEACON_MIN_CONNECTIONS == 10
LONG_CONN_MIN_DURATION == 3600
EXFIL_MIN_BYTES == 100 * 1024 * 1024
EXFIL_MIN_RATIO == <<10, 1>>
COMMON_PORTS == {80, 443, 53, 22, 21, 25, 110, 143, 993, 995}
SUSPICIOUS_PORTS == (1024..65535) \ COMMON_PORTS
PORT_SCAN_MIN_PORTS == 10
DNS_MIN_QUERIES == 50
DNS_MIN_RATE == 1000
GiB == 1024 * 1024 * 1024
MiB == 1024 * 1024

(***************************************************************************)
(* FlowRecord.  An address is a tuple of four octets, or <<>> for the      *)
(* empty string; a timestamp is [t |-> seconds, aware |-> BOOLEAN].        *)
(***************************************************************************)
None == "<None>"

\* ipaddress.ip_address(ip).is_private or .is_loopback; False when the text is
\* no address (the bare except).
_is_internal_ip(ip) ==
    /\ Len(ip) = 4
    /\ \/ ip[1] \in {0, 10, 127}
       \/ ip[1] = 169 /\ ip[2] = 254
       \/ ip[1] = 172 /\ ip[2] \in 16..31
       \/ ip[1] = 192 /\ ip[2] = 168
       \/ ip[1] = 192 /\ ip[2] = 0 /\ ip[3] = 2
       \/ ip[1] = 198 /\ ip[2] \in 18..19
       \/ ip[1] = 198 /\ ip[2] = 51 /\ ip[3] = 100
       \/ ip[1] = 203 /\ ip[2] = 0 /\ ip[3] = 113
       \/ ip[1] >= 240

FlowRecord(timestamp, source_ip, dest_ip, source_port, dest_port, protocol, action, bytes_sent, packets_sent, duration) ==
    [timestamp |-> timestamp, source_ip |-> source_ip, dest_ip |-> dest_ip,
     source_port |-> source_port, dest_port |-> dest_port,
     protocol |-> protocol, action |-> action, bytes_sent |-> bytes_sent,
     packets_sent |-> packets_sent, duration |-> duration,
     is_internal_src |-> _is_internal_ip(source_ip),
     is_internal_dst |-> _is_internal_ip(dest_ip),
     flow_key |-> <<source_ip, source_port, dest_ip, dest_port>>]

\* str.upper() on the action texts that occur.
upper(a) ==
    CASE a = "accept" -> "ACCEPT"
      [] a = "reject" -> "REJECT"
      [] a = "drop" -> "DROP"
      [] OTHER -> a

\* Comparing or subtracting datetimes of different awareness raises TypeError.
Comparable(t1, t2) == t1.aware = t2.aware

MixedAwareness(fs) ==
    \E i, j \in DOMAIN fs : ~Comparable(fs[i].timestamp, fs[j].timestamp)

TimeKey(f) == <<f.timestamp.t, 1>>

SumBy(fs, field) == SumSeq([i \in 1..Len(fs) |-> fs[i][field]])

MinTime(fs) == CHOOSE t \in {fs[i].timestamp : i \in DOMAIN fs} :
                   \A i \in DOMAIN fs : t.t <= fs[i].timestamp.t
MaxTime(fs) == CHOOSE t \in {fs[i].timestamp : i \in DOMAIN fs} :
                   \A i \in DOMAIN fs : t.t >= fs[i].timestamp.t

(***************************************************************************)
(* Confidence / severity policy.                                           *)
(***************************************************************************)
\* A confidence that leaves out the regularity term (0.4 * consistency).
BeaconConfidenceWithoutConsistency(connection_count, consistency_score, avg_interval, dest_port) ==
    LET count_score == RMin(One, R(connection_count, 100))
        interval_score ==
            IF RLeq(<<60, 1>>, avg_interval) /\ RLeq(avg_interval, <<3600, 1>>)
            THEN One
            ELSE IF \/ RLeq(<<30, 1>>, avg_interval) /\ RLess(avg_interval, <<60, 1>>)
                    \/ RLess(<<3600, 1>>, avg_interval) /\ RLeq(avg_interval, <<7200, 1>>)
            THEN <<7, 10>>
            ELSE IF RLess(avg_interval, <<30, 1>>)
            THEN <<3, 10>>
            ELSE <<1, 10>>
        port_score == IF dest_port \in SUSPICIOUS_PORTS THEN <<8, 10>> ELSE <<3, 10>>
    IN  RMin(One, RAdd(RAdd(RMul(count_score, <<3, 10>>),
                            RMul(interval_score, <<2, 10>>)),
                       RMul(port_score, <<1, 10>>)))

_calculate_beacon_confidence(connection_count, consistency_score, avg_interval, dest_port) ==
    LET count_score == RMin(One, R(connection_count, 100))
        interval_score ==
            IF RLeq(<<60, 1>>, avg_interval) /\ RLeq(avg_interval, <<3600, 1>>)
            THEN One
            ELSE IF \/ RLeq(<<30, 1>>, avg_interval) /\ RLess(avg_interval, <<60, 1>>)
                    \/ RLess(<<3600, 1>>, avg_interval) /\ RLeq(avg_interval, <<7200, 1>>)
            THEN <<7, 10>>
            ELSE IF RLess(avg_interval, <<30, 1>>)
            THEN <<3, 10>>
            ELSE <<1, 10>>
        port_score == IF dest_port \in SUSPICIOUS_PORTS THEN <<8, 10>> ELSE <<3, 10>>
        confidence ==
            RAdd(RAdd(RAdd(RMul(count_score, <<3, 10>>),
                           RMul(consistency_score, <<4, 10>>)),
                      RMul(interval_score, <<2, 10>>)),
                 RMul(port_score, <<1, 10>>))
    IN  RMin(One, confidence)

_determine_beacon_severity(confidence, connection_count, dest_port) ==
    IF RLess(<<8, 10>>, confidence) /\ connection_count > 50 THEN "critical"
    ELSE IF /\ RLess(<<6, 10>>, confidence)
            /\ (connection_count > 25 \/ dest_port \in SUSPICIOUS_PORTS) THEN "high"
    ELSE IF RLess(<<4, 10>>, confidence) THEN "medium"
    ELSE "low"

_calculate_long_connection_confidence(duration, bytes_transferred, dest_port) ==
    LET duration_hours == R(duration, 3600)
        duration_score == RMin(One, RDiv(duration_hours, <<24, 1>>))
        bytes_score == RMin(One, R(bytes_transferred, GiB))
        port_score == IF dest_port \in SUSPICIOUS_PORTS THEN <<8, 10>> ELSE <<4, 10>>
        confidence ==
            RAdd(RAdd(RMul(duration_score, <<5, 10>>), RMul(bytes_score, <<3, 10>>)),
                 RMul(port_score, <<2, 10>>))
    IN  RMin(One, confidence)

_determine_long_connection_severity(confidence, duration) ==
    LET duration_hours == R(duration, 3600)
    IN  IF RLess(<<8, 10>>, confidence) /\ RLess(<<12, 1>>, duration_hours) THEN "critical"
        ELSE IF RLess(<<6, 10>>, confidence) /\ RLess(<<6, 1>>, duration_hours) THEN "high"
        ELSE IF RLess(<<4, 10>>, confidence) THEN "medium"
        ELSE "low"

\* A confidence that leaves out the ratio term (0.3 * ratio_score).
ExfiltrationConfidenceWithoutRatio(bytes_out, ratio, dest_count, bytes_per_hour) ==
    LET bytes_score == RMin(One, R(bytes_out, GiB))
        dest_score == RMin(One, R(dest_count, 10))
        rate_score == RMin(One, RDiv(bytes_per_hour, <<100 * MiB, 1>>))
    IN  RMin(One, RAdd(RAdd(RMul(bytes_score, <<3, 10>>),
                            RMul(dest_score, <<2, 10>>)),
                       RMul(rate_score, <<2, 10>>)))

_calculate_exfiltration_confidence(bytes_out, ratio, dest_count, bytes_per_hour) ==
    LET bytes_score == RMin(One, R(bytes_out, GiB))
        ratio_score == RMin(One, RDiv(ratio, <<50, 1>>))
        dest_score == RMin(One, R(dest_count, 10))
        rate_score == RMin(One, RDiv(bytes_per_hour, <<100 * MiB, 1>>))
        confidence ==
            RAdd(RAdd(RAdd(RMul(bytes_score, <<3, 10>>), RMul(ratio_score, <<3, 10>>)),
                      RMul(dest_score, <<2, 10>>)),
                 RMul(rate_score, <<2, 10>>))
    IN  RMin(One, confidence)

_determine_exfiltration_severity(confidence, bytes_out) ==
    LET bytes_gb == R(bytes_out, GiB)
    IN  IF RLess(<<8, 10>>, confidence) /\ RLess(<<5, 1>>, bytes_gb) THEN "critical"
        ELSE IF RLess(<<6, 10>>, confidence) /\ RLess(<<1, 1>>, bytes_gb) THEN "high"
        ELSE IF RLess(<<4, 10>>, confidence) THEN "medium"
        ELSE "low"

ConfidenceKey(c) == c.confidence

\* sorted(found, key=lambda x: x.confidence, reverse=True)
SortedByConfidence(found) ==
    SortedBy(found, [i \in DOMAIN found |-> ConfidenceKey(found[i])], TRUE)

(***************************************************************************)
(* A detector's outcome: the candidate list it returns, or the exception   *)
(* it raises (raised = TRUE, no list, error = str(e)).                     *)
(***************************************************************************)
Returns(list) == [raised |-> FALSE, value |-> list, error |-> ""]
Raises(error) == [raised |-> TRUE, value |-> <<>>, error |-> error]

\* flow.action.upper() on an action that is None.
AttributeError == "'NoneType' object has no attribute 'upper'"
\* sort, min, max or < on datetimes of which one is aware and one is naive.
TypeError == "can't compare offset-naive and offset-aware datetimes"
\* x / 0.0
ZeroDivisionError == "float division by zero"

\* Some quotient of candidate c, among the named fields, is a division by zero.
DividedByZero(c, fields) == \E f \in fields : c[f] = DivError

\* A rate taken over the hours themselves, however few.
HoursUnguarded(seconds) == R(seconds, 3600)

\* max(seconds / 3600, 0.1): the denominator of a rate per hour (lines 437, 527).
HoursFloor(seconds) == RMax(R(seconds, 3600), <<1, 10>>)

(***************************************************************************)
(* Beacon detector.                                                        *)
(***************************************************************************)
TupleKey(f) == <<f.source_ip, f.dest_ip, f.dest_port>>

\* statistics.mean and statistics.variance (sample variance) of the intervals.
Mean(xs) == R(SumSeq(xs), Len(xs))

Variance(xs) ==
    LET n == Len(xs)
        S == SumSeq(xs)
        dev == [i \in 1..n |-> (n * xs[i] - S) * (n * xs[i] - S)]
    IN  R(SumSeq(dev), n * n * (n - 1))

\* The candidate computed for one group of at least BEACON_MIN_CONNECTIONS
\* flows (lines 271-307), before the confidence filter.
BeaconOfGroup(key, unsorted) ==
    LET group_flows == SortedBy(unsorted, [i \in DOMAIN unsorted |-> TimeKey(unsorted[i])], FALSE)
        n == Len(group_flows)
        intervals == [i \in 1..(n - 1) |->
                         group_flows[i + 1].timestamp.t - group_flows[i].timestamp.t]
        avg_interval == Mean(intervals)
        interval_variance == IF Len(intervals) > 1 THEN Variance(intervals) ELSE Zero
        cv_finite == avg_interval[1] > 0
        cv == RDiv(interval_variance, RMul(avg_interval, avg_interval))
        consistency_score == IF cv_finite THEN RDiv(One, RAdd(One, cv)) ELSE Zero
        total_bytes == SumBy(group_flows, "bytes_sent")
        first_seen == group_flows[1].timestamp
        last_seen == group_flows[n].timestamp
        confidence == _calculate_beacon_confidence(n, consistency_score,
                                                   avg_interval, key[3])
    IN  [source_ip |-> key[1], dest_ip |-> key[2], dest_port |-> key[3],
         connection_count |-> n, total_bytes |-> total_bytes,
         avg_bytes_per_connection |-> R(total_bytes, n),
         time_intervals |-> intervals, avg_interval |-> avg_interval,
         interval_variance |-> interval_variance,
         consistency_score |-> consistency_score,
         first_seen |-> first_seen, last_seen |-> last_seen,
         duration_hours |-> R(last_seen.t - first_seen.t, 3600),
         confidence |-> confidence,
         severity |-> _determine_beacon_severity(confidence, n, key[3])]

BeaconEmitted(b) == RLess(<<3, 10>>, b.confidence)

\* A grouping that also counts the refused connections of a tuple.
IsAnyAction(f) == upper(f.action) \in {"ACCEPT", "REJECT", "DROP"}

\* if flow.action.upper() == 'ACCEPT' (line 261).
IsAccept(f) == upper(f.action) = "ACCEPT"

_detect_beacons(flows) ==
    LET accepted == SelectSeq(flows, IsAccept)
        keys == KeysInOrder([i \in 1..Len(accepted) |-> TupleKey(accepted[i])])
        Group(k) == LET InGroup(f) == TupleKey(f) = k IN SelectSeq(accepted, InGroup)
        Big(k) == Len(Group(k)) >= BEACON_MIN_CONNECTIONS
        bigkeys == SelectSeq(keys, Big)
        candidates == [i \in 1..Len(bigkeys) |-> BeaconOfGroup(bigkeys[i], Group(bigkeys[i]))]
    IN  IF \E i \in DOMAIN flows : flows[i].action = None
        THEN Raises(AttributeError)     \* None.upper()
        ELSE IF \E i \in DOMAIN bigkeys : MixedAwareness(Group(bigkeys[i]))
        THEN Raises(TypeError)          \* group_flows.sort
        ELSE IF \E i \in DOMAIN candidates :
                    DividedByZero(candidates[i],
                                  {"avg_interval", "interval_variance", "consistency_score",
                                   "avg_bytes_per_connection", "duration_hours"})
        THEN Raises(ZeroDivisionError)
        ELSE Returns(SortedByConfidence(SelectSeq(candidates, BeaconEmitted)))

(***************************************************************************)
(* Long-connection detector.                                               *)
(***************************************************************************)
LongConnOfGroup(key, group_flows) ==
    LET total_duration == SumBy(group_flows, "duration")
        total_bytes == SumBy(group_flows, "bytes_sent")
        confidence == _calculate_long_connection_confidence(total_duration,
                                                            total_bytes, key[3])
    IN  [source_ip |-> key[1], dest_ip |-> key[2], dest_port |-> key[3],
         total_duration |-> total_duration, total_bytes |-> total_bytes,
         total_packets |-> SumBy(group_flows, "packets_sent"),
         start_time |-> MinTime(group_flows), end_time |-> MaxTime(group_flows),
         avg_bytes_per_second |->
             IF total_duration > 0 THEN R(total_bytes, total_duration) ELSE Zero,
         confidence |-> confidence,
         severity |-> _determine_long_connection_severity(confidence, total_duration)]

\* A long-connection filter as loose as the beacon filter.
LongConnEmittedAboveBeaconFloor(c) == RLess(<<3, 10>>, c.confidence)

LongConnEmitted(c) == RLess(<<4, 10>>, c.confidence)

\* A threshold that reads the summed seconds as minutes.
LongEnoughInMinutes(total_duration) == total_duration * 60 >= LONG_CONN_MIN_DURATION

\* not (total_duration < self.LONG_CONN_MIN_DURATION) (line 350).
LongEnough(total_duration) == total_duration >= LONG_CONN_MIN_DURATION

_detect_long_connections(flows) ==
    LET HasDuration(f) == f.duration > 0
        timed == SelectSeq(flows, HasDuration)
        keys == KeysInOrder([i \in 1..Len(timed) |-> TupleKey(timed[i])])
        Group(k) == LET InGroup(f) == TupleKey(f) = k IN SelectSeq(timed, InGroup)
        Long(k) == LongEnough(SumBy(Group(k), "duration"))
        longkeys == SelectSeq(keys, Long)
        candidates == [i \in 1..Len(longkeys) |->
                          LongConnOfGroup(longkeys[i], Group(longkeys[i]))]
    IN  IF \E i \in DOMAIN longkeys : MixedAwareness(Group(longkeys[i]))
        THEN Raises(TypeError)          \* min(flow.timestamp ...)
        ELSE IF \E i \in DOMAIN candidates :
                    DividedByZero(candidates[i], {"avg_bytes_per_second"})
        THEN Raises(ZeroDivisionError)
        ELSE Returns(SortedByConfidence(SelectSeq(candidates, LongConnEmitted)))

(***************************************************************************)
(* Data-exfiltration detector.                                             *)
(***************************************************************************)
IsOutbound(f) == f.is_internal_src /\ ~f.is_internal_dst
IsInbound(f) == ~f.is_internal_src /\ f.is_internal_dst

\* A choice that takes the first element, whatever the weights.
FirstOfAll(s, weights) == s[1]

\* The first element of a non-empty sequence with the largest weight: max(..., key=...).
FirstMax(s, weights) ==
    LET i == CHOOSE i \in DOMAIN s :
                 /\ \A j \in DOMAIN s : weights[j] <= weights[i]
                 /\ \A j \in 1..(i - 1) : weights[j] < weights[i]
    IN  s[i]

\* The aggregation of one internal source (lines 400-437).
ExfilOfSource(src_ip, outbound, inbound) ==
    LET FromSrc(f) == f.source_ip = src_ip
        mine == SelectSeq(outbound, FromSrc)
        destinations == KeysInOrder([i \in 1..Len(mine) |-> mine[i].dest_ip])
        FlowsTo(dst) == LET ToDst(f) == f.dest_ip = dst IN SelectSeq(mine, ToDst)
        BytesTo(dst) == SumBy(FlowsTo(dst), "bytes_sent")
        InboundFrom(dst) ==
            LET Back(f) == f.dest_ip = src_ip /\ f.source_ip = dst
            IN  SumBy(SelectSeq(inbound, Back), "bytes_sent")
        total_outbound_bytes == SumSeq([i \in 1..Len(destinations) |-> BytesTo(destinations[i])])
        total_inbound_bytes == SumSeq([i \in 1..Len(destinations) |-> InboundFrom(destinations[i])])
        exfiltration_ratio ==
            R(total_outbound_bytes, IF total_inbound_bytes > 1 THEN total_inbound_bytes ELSE 1)
        time_window == MaxTime(mine).t - MinTime(mine).t
        bytes_per_hour ==
            RDiv(<<total_outbound_bytes, 1>>, HoursFloor(time_window))
        confidence == _calculate_exfiltration_confidence(
                          total_outbound_bytes, exfiltration_ratio,
                          Len(destinations), bytes_per_hour)
        primary_dest ==
            FirstMax(destinations, [i \in DOMAIN destinations |-> BytesTo(destinations[i])])
        BytesOf(f) == f.bytes_sent
        to_primary == FlowsTo(primary_dest)
    IN  [source_ip |-> src_ip, dest_ip |-> primary_dest,
         dest_port |-> FirstMax(to_primary, [i \in DOMAIN to_primary |-> BytesOf(to_primary[i])]).dest_port,
         total_bytes_out |-> total_outbound_bytes,
         total_bytes_in |-> total_inbound_bytes,
         exfiltration_ratio |-> exfiltration_ratio,
         connection_count |-> Len(mine),
         unique_dest_count |-> Len(destinations),
         time_window |-> time_window, bytes_per_hour |-> bytes_per_hour,
         confidence |-> confidence,
         severity |-> _determine_exfiltration_severity(confidence, total_outbound_bytes)]

\* A volume filter that reads the threshold of 100 MiB as 100 KiB.
ExfilEnoughKiB(src_ip, outbound) ==
    LET FromSrc(f) == f.source_ip = src_ip
    IN  SumBy(SelectSeq(outbound, FromSrc), "bytes_sent") >= EXFIL_MIN_BYTES \div 1024

\* total_outbound_bytes >= EXFIL_MIN_BYTES (line 426).
ExfilEnoughBytes(src_ip, outbound) ==
    LET FromSrc(f) == f.source_ip = src_ip
    IN  SumBy(SelectSeq(outbound, FromSrc), "bytes_sent") >= EXFIL_MIN_BYTES

ExfilEmitted(e) ==
    /\ RLeq(EXFIL_MIN_RATIO, e.exfiltration_ratio)
    /\ RLess(<<5, 10>>, e.confidence)

_detect_data_exfiltration(flows) ==
    LET outbound == SelectSeq(flows, IsOutbound)
        inbound == SelectSeq(flows, IsInbound)
        sources == KeysInOrder([i \in 1..Len(outbound) |-> outbound[i].source_ip])
        Mixed(src) == LET FromSrc(f) == f.source_ip = src
                      IN  MixedAwareness(SelectSeq(outbound, FromSrc))
        Enough(src) == ExfilEnoughBytes(src, outbound)
        kept == SelectSeq(sources, Enough)
        candidates == [i \in 1..Len(kept) |-> ExfilOfSource(kept[i], outbound, inbound)]
    IN  IF \E i \in DOMAIN sources : Mixed(sources[i])
        THEN Raises(TypeError)          \* flow.timestamp < earliest_time
        ELSE IF \E i \in DOMAIN candidates :
                    DividedByZero(candidates[i], {"exfiltration_ratio", "bytes_per_hour"})
        THEN Raises(ZeroDivisionError)
        ELSE Returns(SortedByConfidence(SelectSeq(candidates, ExfilEmitted)))

(***************************************************************************)
(* Port-scan detector.                                                     *)
(***************************************************************************)
RECURSIVE SortedList(_)
SortedList(S) ==
    IF S = {} THEN <<>>
    ELSE LET m == CHOOSE x \in S : \A y \in S : x <= y
         IN  <<m>> \o SortedList(S \ {m})

PairKey(f) == <<f.source_ip, f.dest_ip>>

\* A scan event whose confidence is not capped at 0.9.
ScanOfPairUncapped(key, ports) ==
    LET suspicious_ports == {p \in ports : p \in SUSPICIOUS_PORTS}
        suspicious_ratio == R(Cardinality(suspicious_ports), Cardinality(ports))
        confidence == RAdd(R(Cardinality(ports), 100), RMul(suspicious_ratio, <<5, 10>>))
    IN  [type |-> "port_scan", source_ip |-> key[1], dest_ip |-> key[2],
         ports_scanned |-> Cardinality(ports),
         suspicious_ports |-> Cardinality(suspicious_ports),
         confidence |-> confidence,
         severity |-> IF RLess(<<7, 10>>, confidence) THEN "high"
                      ELSE IF RLess(<<5, 10>>, confidence) THEN "medium"
                      ELSE "low",
         details |-> [ports |-> SortedList(ports),
                      suspicious_ratio |-> suspicious_ratio]]

ScanOfPair(key, ports) ==
    LET suspicious_ports == {p \in ports : p \in SUSPICIOUS_PORTS}
        suspicious_ratio == R(Cardinality(suspicious_ports), Cardinality(ports))
        confidence == RMin(<<9, 10>>,
                           RAdd(R(Cardinality(ports), 100),
                                RMul(suspicious_ratio, <<5, 10>>)))
    IN  [type |-> "port_scan", source_ip |-> key[1], dest_ip |-> key[2],
         ports_scanned |-> Cardinality(ports),
         suspicious_ports |-> Cardinality(suspicious_ports),
         confidence |-> confidence,
         severity |-> IF RLess(<<7, 10>>, confidence) THEN "high"
                      ELSE IF RLess(<<5, 10>>, confidence) THEN "medium"
                      ELSE "low",
         details |-> [ports |-> SortedList(ports),
                      suspicious_ratio |-> suspicious_ratio]]

\* A threshold test that is strict: ten ports are not yet a scan.
MoreThanMinPorts(ports) == Cardinality(ports) > PORT_SCAN_MIN_PORTS

\* if len(ports) >= 10 (line 484).
EnoughPorts(ports) == Cardinality(ports) >= PORT_SCAN_MIN_PORTS

_detect_port_scanning(flows) ==
    LET IsRejected(f) == upper(f.action) \in {"REJECT", "DROP"}
        rejected == SelectSeq(flows, IsRejected)
        sources == KeysInOrder([i \in 1..Len(rejected) |-> rejected[i].source_ip])
        \* dict order: sources by first occurrence, then each source's targets.
        TargetsOf(src) ==
            LET FromSrc(f) == f.source_ip = src
                mine == SelectSeq(rejected, FromSrc)
            IN  KeysInOrder([i \in 1..Len(mine) |-> PairKey(mine[i])])
        RECURSIVE Pairs(_)
        Pairs(srcs) == IF srcs = <<>> THEN <<>>
                       ELSE TargetsOf(Head(srcs)) \o Pairs(Tail(srcs))
        pairs == Pairs(sources)
        PortsOf(k) == {rejected[i].dest_port :
                          i \in {j \in DOMAIN rejected : PairKey(rejected[j]) = k}}
        Scanned(k) == EnoughPorts(PortsOf(k))
        flagged == SelectSeq(pairs, Scanned)
        events == [i \in 1..Len(flagged) |-> ScanOfPair(flagged[i], PortsOf(flagged[i]))]
    IN  IF \E i \in DOMAIN flows : flows[i].action = None
        THEN Raises(AttributeError)     \* None.upper()
        ELSE IF \E i \in DOMAIN events :
                    DividedByZero(events[i].details, {"suspicious_ratio"})
        THEN Raises(ZeroDivisionError)
        ELSE Returns(SortedByConfidence(events))

(***************************************************************************)
(* DNS-tunneling detector.                                                 *)
(***************************************************************************)
DnsOfSource(src_ip, flows_list) ==
    LET time_span == MaxTime(flows_list).t - MinTime(flows_list).t
        query_rate == RDiv(<<Len(flows_list), 1>>, HoursFloor(time_span))
        confidence == RMin(<<9, 10>>, RDiv(query_rate, <<5000, 1>>))
    IN  [type |-> "dns_tunneling", source_ip |-> src_ip,
         query_count |-> Len(flows_list),
         query_rate_per_hour |-> query_rate,
         time_span_hours |-> R(time_span, 3600),
         confidence |-> confidence,
         severity |-> IF RLess(<<7, 10>>, confidence) THEN "high" ELSE "medium",
         details |-> [avg_bytes_per_query |->
                          R(SumBy(flows_list, "bytes_sent"), Len(flows_list))]]

\* A rate test that already flags 1000 queries per hour.
DnsEmittedFromMinRate(d) == RLeq(<<DNS_MIN_RATE, 1>>, d.query_rate_per_hour)

\* if query_rate > 1000 (line 530).
DnsEmitted(d) == RLess(<<DNS_MIN_RATE, 1>>, d.query_rate_per_hour)

_detect_suspicious_dns(flows) ==
    LET IsDns(f) == f.dest_port = 53
        dns_flows == SelectSeq(flows, IsDns)
        sources == KeysInOrder([i \in 1..Len(dns_flows) |-> dns_flows[i].source_ip])
        Group(src) == LET FromSrc(f) == f.source_ip = src IN SelectSeq(dns_flows, FromSrc)
        Busy(src) == Len(Group(src)) >= DNS_MIN_QUERIES
        busy == SelectSeq(sources, Busy)
        events == [i \in 1..Len(busy) |-> DnsOfSource(busy[i], Group(busy[i]))]
    IN  IF \E i \in DOMAIN busy : MixedAwareness(Group(busy[i]))
        THEN Raises(TypeError)          \* max(flow.timestamp ...)
        ELSE IF \E i \in DOMAIN events :
                    \/ DividedByZero(events[i], {"query_rate_per_hour", "time_span_hours"})
                    \/ DividedByZero(events[i].details, {"avg_bytes_per_query"})
        THEN Raises(ZeroDivisionError)
        ELSE Returns(SortedByConfidence(SelectSeq(events, DnsEmitted)))

(***************************************************************************)
(* Flow normalizer.  A raw record is                                       *)
(*   [Time, SourceIP, DestinationIP, SourcePort, DestinationPort, Action,  *)
(*    StartTime, EndTime]                                                  *)
(* with tagged field values:                                               *)
(*   Time       [kind |-> "missing"]  absent, None, "" or 0                *)
(*              [kind |-> "int", millions |-> h, units |-> u]  h*10^6 + u  *)
(*              [kind |-> "iso", t |-> seconds, aware |-> BOOLEAN]         *)
(*              [kind |-> "badstr"]   a string fromisoformat rejects       *)
(*              [kind |-> "other"]    a value that is neither int nor str  *)
(*   ports      [kind |-> "missing"], [kind |-> "int", v |-> n],           *)
(*              [kind |-> "numstr", v |-> n], [kind |-> "bad"]             *)
(*   Action     Absent, None, or the text                                  *)
(*   StartTime, EndTime   as Time, without the int form                    *)
(***************************************************************************)
Absent == "<absent>"
Million == 1000 * 1000

\* Lines 200-211.  raises = TRUE: fromisoformat raised ValueError.
ParseTimestamp(v, clock) ==
    CASE v.kind = "int" ->
            [raises |-> FALSE,
             ts |-> [t |-> IF v.millions > Million \/ (v.millions = Million /\ v.units > 0)
                           THEN v.millions * 1000 + (v.units \div 1000)
                           ELSE v.millions * Million + v.units,
                     aware |-> FALSE]]
      [] v.kind = "iso" -> [raises |-> FALSE, ts |-> [t |-> v.t, aware |-> v.aware]]
      [] v.kind = "badstr" -> [raises |-> TRUE, ts |-> [t |-> 0, aware |-> FALSE]]
      [] OTHER -> [raises |-> FALSE, ts |-> [t |-> clock, aware |-> FALSE]]

\* int(flow.get(..., 0) or 0), lines 216-217.
ParsePort(v) ==
    CASE v.kind \in {"int", "numstr"} -> [raises |-> FALSE, port |-> v.v]
      [] v.kind = "bad" -> [raises |-> TRUE, port |-> 0]
      [] OTHER -> [raises |-> FALSE, port |-> 0]

\* Lines 224-233: end - start in seconds, 0 when either is missing or the
\* inner try fails (unparsable text, or datetimes of different awareness).
ParseDuration(start_time, end_time) ==
    IF /\ start_time.kind = "iso" /\ end_time.kind = "iso"
       /\ start_time.aware = end_time.aware
    THEN end_time.t - start_time.t
    ELSE 0

\* A normalizer that takes every record for a transfer of 100 MiB.
BytesSentOfBulkTransfer == 100 * MiB

\* bytes_sent = 1024  # Default since Bytes field not available (line 220).
DefaultBytesSent == 1024

\* One iteration of the loop of _parse_flow_records: the records appended.
ParseOne(flow, clock) ==
    LET time == ParseTimestamp(flow.Time, clock)
        sport == ParsePort(flow.SourcePort)
        dport == ParsePort(flow.DestinationPort)
    IN  IF time.raises \/ sport.raises \/ dport.raises
        THEN <<>>       \* except Exception: continue
        ELSE IF Len(flow.SourceIP) > 0 /\ Len(flow.DestinationIP) > 0
        THEN <<FlowRecord(time.ts, flow.SourceIP, flow.DestinationIP,
                          sport.port, dport.port, "TCP",
                          IF flow.Action = Absent THEN "ACCEPT" ELSE flow.Action,
                          DefaultBytesSent, 1,
                          ParseDuration(flow.StartTime, flow.EndTime))>>
        ELSE <<>>

\* A normalizer that returns its records newest first.
ParseFlowRecordsNewestFirst(flows, clock) ==
    LET parsed == [i \in 1..Len(flows) |-> ParseOne(flows[i], clock)]
        records == AtPositions(parsed, {i \in 1..Len(flows) : parsed[i] # <<>>})
        in_order == [k \in 1..Len(records) |-> records[k][1]]
    IN  SortedBy(in_order, [k \in DOMAIN in_order |-> TimeKey(in_order[k])], TRUE)

_parse_flow_records(flows, clock) ==
    LET parsed == [i \in 1..Len(flows) |-> ParseOne(flows[i], clock)]
        records == AtPositions(parsed, {i \in 1..Len(flows) : parsed[i] # <<>>})
    IN  [k \in 1..Len(records) |-> records[k][1]]

\* The most records a query asks for: the 50000 of line 170.
QueryRecordCap == 50000

\* max_records = min(50000, max(1000, time_period_minutes * 30)): the number
\* of records the query asks for (head {max_records}).
max_records(minutes) ==
    LET wanted == IF minutes * 30 > 1000 THEN minutes * 30 ELSE 1000
    IN  IF wanted < QueryRecordCap THEN wanted ELSE QueryRecordCap

\* Lines 170-191: the records of a successful query, [] otherwise.
_get_vcn_flow_data(outcome, records) == IF outcome = "ok" THEN records ELSE <<>>

(***************************************************************************)
(* Threat aggregator.                                                      *)
(***************************************************************************)
Severities(list) == [i \in 1..Len(list) |-> list[i].severity]

\* A tally that counts under a level every severity of that level or above.
CountOfLevelOrAbove(sevs, level) ==
    LET rank == [l \in {"low", "medium", "high", "critical"} |->
                    CASE l = "low" -> 1 [] l = "medium" -> 2
                      [] l = "high" -> 3 [] l = "critical" -> 4]
    IN  Cardinality({i \in DOMAIN sevs : rank[sevs[i]] >= rank[level]})

\* Counter([...]).get(level, 0)
CountOf(sevs, level) == Cardinality({i \in DOMAIN sevs : sevs[i] = level})

\* Statistics whose severity tally leaves out the DNS events.
ThreatStatsWithoutDns(bs, lcs, exs, scans, dns_events) ==
    LET all_threats == Severities(bs) \o Severities(lcs) \o Severities(exs)
                       \o Severities(scans)
    IN  [total_threats |-> Len(all_threats),
         critical_threats |-> CountOf(all_threats, "critical"),
         high_threats |-> CountOf(all_threats, "high"),
         medium_threats |-> CountOf(all_threats, "medium"),
         low_threats |-> CountOf(all_threats, "low"),
         beacons_detected |-> Len(bs),
         long_connections |-> Len(lcs),
         dns_tunneling |-> Len(dns_events),
         data_exfiltration |-> Len(exs),
         port_scans |-> Len(scans),
         analysis_time_range |-> 1440]

_calculate_threat_stats(bs, lcs, exs, scans, dns_events) ==
    LET all_threats == Severities(bs) \o Severities(lcs) \o Severities(exs)
                       \o Severities(scans) \o Severities(dns_events)
    IN  [total_threats |-> Len(all_threats),
         critical_threats |-> CountOf(all_threats, "critical"),
         high_threats |-> CountOf(all_threats, "high"),
         medium_threats |-> CountOf(all_threats, "medium"),
         low_threats |-> CountOf(all_threats, "low"),
         beacons_detected |-> Len(bs),
         long_connections |-> Len(lcs),
         dns_tunneling |-> Len(dns_events),
         data_exfiltration |-> Len(exs),
         port_scans |-> Len(scans),
         analysis_time_range |-> 1440]     \* f"Last {1440} minutes"

\* int(confidence * 100)
Score(confidence) == RInt(RMul(confidence, <<100, 1>>))

\* datetime.now(timezone.utc).isoformat(): an aware instant.
NowUtc(clock) == [t |-> clock, aware |-> TRUE]

\* The text of an address as the records carry it: dotted decimal, or the
\* empty string.
IpText(ip) ==
    IF Len(ip) = 0 THEN ""
    ELSE ToString(ip[1]) \o "." \o ToString(ip[2]) \o "." \o ToString(ip[3])
         \o "." \o ToString(ip[4])

\* "_".join(parts): the texts of an f-string id, with "_" between them.
RECURSIVE Joined(_)
Joined(parts) ==
    IF Len(parts) = 1 THEN parts[1]
    ELSE parts[1] \o "_" \o Joined(Tail(parts))

\* A long-connection id that starts with the beacon prefix.
LongConnIdWithBeaconPrefix(c) ==
    "beacon_" \o IpText(c.source_ip) \o "_" \o IpText(c.dest_ip) \o "_"
    \o ToString(c.dest_port)

\* f"beacon_{beacon.source_ip}_{beacon.dest_ip}_{beacon.dest_port}"
BeaconId(b) ==
    "beacon_" \o IpText(b.source_ip) \o "_" \o IpText(b.dest_ip) \o "_"
    \o ToString(b.dest_port)

\* f"longconn_{conn.source_ip}_{conn.dest_ip}_{conn.dest_port}"
LongConnId(c) ==
    "longconn_" \o IpText(c.source_ip) \o "_" \o IpText(c.dest_ip) \o "_"
    \o ToString(c.dest_port)

\* f"exfil_{exfil.source_ip}_{exfil.dest_ip}"
ExfilId(e) == "exfil_" \o IpText(e.source_ip) \o "_" \o IpText(e.dest_ip)

\* f"portscan_{scan['source_ip']}_{scan['dest_ip']}"
ScanId(sc) == "portscan_" \o IpText(sc.source_ip) \o "_" \o IpText(sc.dest_ip)

\* f"dns_{dns['source_ip']}"
DnsId(d) == "dns_" \o IpText(d.source_ip)

BeaconThreat(b) ==
    [id |-> BeaconId(b),
     type |-> "beacon", severity |-> b.severity, score |-> Score(b.confidence),
     source_ip |-> b.source_ip, destination_ip |-> b.dest_ip,
     destination_port |-> b.dest_port,
     first_seen |-> b.first_seen, last_seen |-> b.last_seen,
     connection_count |-> b.connection_count, bytes_transferred |-> b.total_bytes,
     duration_hours |-> b.duration_hours, confidence |-> Score(b.confidence),
     details |-> [avg_interval_seconds |-> b.avg_interval,
                  consistency_score |-> b.consistency_score,
                  avg_bytes_per_connection |-> b.avg_bytes_per_connection]]

LongConnThreat(c) ==
    [id |-> LongConnId(c),
     type |-> "long_connection", severity |-> c.severity, score |-> Score(c.confidence),
     source_ip |-> c.source_ip, destination_ip |-> c.dest_ip,
     destination_port |-> c.dest_port,
     first_seen |-> c.start_time, last_seen |-> c.end_time,
     connection_count |-> 1, bytes_transferred |-> c.total_bytes,
     duration_hours |-> R(c.total_duration, 3600), confidence |-> Score(c.confidence),
     details |-> [total_duration_seconds |-> c.total_duration,
                  total_packets |-> c.total_packets,
                  avg_bytes_per_second |-> c.avg_bytes_per_second]]

ExfilThreat(e, clock) ==
    [id |-> ExfilId(e),
     type |-> "data_exfiltration", severity |-> e.severity, score |-> Score(e.confidence),
     source_ip |-> e.source_ip, destination_ip |-> e.dest_ip,
     destination_port |-> e.dest_port,
     first_seen |-> NowUtc(clock), last_seen |-> NowUtc(clock),
     connection_count |-> e.connection_count, bytes_transferred |-> e.total_bytes_out,
     duration_hours |-> R(e.time_window, 3600), confidence |-> Score(e.confidence),
     details |-> [bytes_in |-> e.total_bytes_in,
                  exfiltration_ratio |-> e.exfiltration_ratio,
                  unique_destinations |-> e.unique_dest_count,
                  bytes_per_hour |-> e.bytes_per_hour]]

ScanThreat(sc, clock) ==
    [id |-> ScanId(sc),
     type |-> "port_scan", severity |-> sc.severity, score |-> Score(sc.confidence),
     source_ip |-> sc.source_ip, destination_ip |-> sc.dest_ip,
     destination_port |-> 0,
     first_seen |-> NowUtc(clock), last_seen |-> NowUtc(clock),
     connection_count |-> sc.ports_scanned, bytes_transferred |-> 0,
     duration_hours |-> Zero, confidence |-> Score(sc.confidence),
     details |-> sc.details]

DnsThreat(d, clock) ==
    [id |-> DnsId(d),
     type |-> "dns_tunneling", severity |-> d.severity, score |-> Score(d.confidence),
     source_ip |-> d.source_ip, destination_ip |-> <<"DNS_SERVER">>,
     destination_port |-> 53,
     first_seen |-> NowUtc(clock), last_seen |-> NowUtc(clock),
     connection_count |-> d.query_count, bytes_transferred |-> 0,
     duration_hours |-> d.time_span_hours, confidence |-> Score(d.confidence),
     details |-> d.details]

ScoreKey(th) == <<th.score, 1>>

\* The list before the final sort (lines 686-793): insertion order.
ThreatsInInsertionOrder(bs, lcs, exs, scans, dns_events, clock) ==
    [i \in 1..Len(bs) |-> BeaconThreat(bs[i])]
    \o [i \in 1..Len(lcs) |-> LongConnThreat(lcs[i])]
    \o [i \in 1..Len(exs) |-> ExfilThreat(exs[i], clock)]
    \o [i \in 1..Len(scans) |-> ScanThreat(scans[i], clock)]
    \o [i \in 1..Len(dns_events) |-> DnsThreat(dns_events[i], clock)]

\* A summary sorted ascending and then reversed: ties come out in reverse
\* insertion order.
CompileSortedAscendingReversed(bs, lcs, exs, scans, dns_events, clock) ==
    LET threats == ThreatsInInsertionOrder(bs, lcs, exs, scans, dns_events, clock)
    IN  Reverse(SortedBy(threats, [i \in DOMAIN threats |-> ScoreKey(threats[i])], FALSE))

_compile_threat_summary(bs, lcs, exs, scans, dns_events, clock) ==
    LET threats == ThreatsInInsertionOrder(bs, lcs, exs, scans, dns_events, clock)
    IN  SortedBy(threats, [i \in DOMAIN threats |-> ScoreKey(threats[i])], TRUE)

(***************************************************************************)
(* analyze_vcn_flows, one statement per step.  An exception raised by any  *)
(* step reaches the single handler of lines 163-165.                       *)
(***************************************************************************)
\* The five detector calls of lines 135-139, by the key each result has in
\* analysis_details.
Detectors ==
    {"beacons", "long_connections", "data_exfiltration", "port_scans", "suspicious_dns"}

Outcome(d, flows) ==
    CASE d = "beacons" -> _detect_beacons(flows)
      [] d = "long_connections" -> _detect_long_connections(flows)
      [] d = "data_exfiltration" -> _detect_data_exfiltration(flows)
      [] d = "port_scans" -> _detect_port_scanning(flows)
      [] d = "suspicious_dns" -> _detect_suspicious_dns(flows)

\* A DNS detector that takes the queries it has counted out of the shared list.
FlowsAfterConsumingDetector(d, flows) ==
    IF d = "suspicious_dns" THEN SelectSeq(flows, LAMBDA f : f.dest_port # 53)
    ELSE flows

\* A beacon detector that sorts the shared list instead of its group lists.
FlowsAfterSortingDetector(d, flows) ==
    IF d = "beacons" /\ ~MixedAwareness(flows)
    THEN SortedBy(flows, [i \in DOMAIN flows |-> TimeKey(flows[i])], FALSE)
    ELSE flows

\* The flow list a detector leaves behind.  Every detector only iterates over
\* flow_records; the one sort (line 272) is applied to the group list the
\* beacon detector built itself.
FlowsAfterDetector(d, flows) == flows

NoResult == [pending |-> TRUE]

\* No method of RITAAnalyzer has been called.
RitaIdle ==
    /\ rita_call = "none"
    /\ rita_pc = "idle"
    /\ rita_queries = <<>>
    /\ beacon_result = NoResult
    /\ long_conn_result = NoResult
    /\ dns_result = NoResult
    /\ rita_result = NoResult
NoStats == [pending |-> TRUE]

Failure(error) == [success |-> FALSE, error |-> error]

Locals == <<flow_records, beacons, long_connections, exfiltration, port_scans,
            suspicious_dns, stats, order, normalized>>
Inputs == <<time_period_minutes, upstream, raw, now, run, prev>>

\* except Exception as e: return {"success": False, "error": str(e)}
Handler(step, error) ==
    /\ pc' = "done"
    /\ raised' = step
    /\ result' = Failure(error)

\* Lines 124-126.
GetData ==
    /\ pc = "get_data"
    /\ LET flows == _get_vcn_flow_data(upstream, raw)
       IN  IF flows = <<>>
           THEN /\ pc' = "done"
                /\ result' = Failure("No VCN flow data found")
           ELSE /\ pc' = "parse"
                /\ result' = result
    /\ UNCHANGED <<Rita, Inputs, Locals, raised>>

\* Line 132.
Parse ==
    /\ pc = "parse"
    /\ flow_records' = _parse_flow_records(raw, now)
    /\ normalized' = flow_records'
    /\ pc' = "beacons"
    /\ UNCHANGED <<Rita, Inputs, beacons, long_connections, exfiltration, port_scans,
                   suspicious_dns, stats, order, raised, result>>

\* Line 135.
DetectBeacons ==
    /\ pc = "beacons"
    /\ LET r == _detect_beacons(flow_records)
       IN  IF r.raised
           THEN Handler("beacons", r.error) /\ beacons' = beacons
           ELSE /\ beacons' = r.value
                /\ pc' = "long_connections"
                /\ UNCHANGED <<raised, result>>
    /\ flow_records' = FlowsAfterDetector("beacons", flow_records)
    /\ order' = Append(order, "beacons")
    /\ UNCHANGED <<Rita, Inputs, long_connections, exfiltration,
                   port_scans, suspicious_dns, stats, normalized>>

\* Line 136.
DetectLongConnections ==
    /\ pc = "long_connections"
    /\ LET r == _detect_long_connections(flow_records)
       IN  IF r.raised
           THEN Handler("long_connections", r.error) /\ long_connections' = long_connections
           ELSE /\ long_connections' = r.value
                /\ pc' = "exfiltration"
                /\ UNCHANGED <<raised, result>>
    /\ flow_records' = FlowsAfterDetector("long_connections", flow_records)
    /\ order' = Append(order, "long_connections")
    /\ UNCHANGED <<Rita, Inputs, beacons, exfiltration, port_scans,
                   suspicious_dns, stats, normalized>>

\* Line 137.
DetectDataExfiltration ==
    /\ pc = "exfiltration"
    /\ LET r == _detect_data_exfiltration(flow_records)
       IN  IF r.raised
           THEN Handler("exfiltration", r.error) /\ exfiltration' = exfiltration
           ELSE /\ exfiltration' = r.value
                /\ pc' = "port_scans"
                /\ UNCHANGED <<raised, result>>
    /\ flow_records' = FlowsAfterDetector("data_exfiltration", flow_records)
    /\ order' = Append(order, "data_exfiltration")
    /\ UNCHANGED <<Rita, Inputs, beacons, long_connections, port_scans,
                   suspicious_dns, stats, normalized>>

\* Line 138.
DetectPortScanning ==
    /\ pc = "port_scans"
    /\ LET r == _detect_port_scanning(flow_records)
       IN  IF r.raised
           THEN Handler("port_scans", r.error) /\ port_scans' = port_scans
           ELSE /\ port_scans' = r.value
                /\ pc' = "suspicious_dns"
                /\ UNCHANGED <<raised, result>>
    /\ flow_records' = FlowsAfterDetector("port_scans", flow_records)
    /\ order' = Append(order, "port_scans")
    /\ UNCHANGED <<Rita, Inputs, beacons, long_connections, exfiltration,
                   suspicious_dns, stats, normalized>>

\* Line 139.
DetectSuspiciousDns ==
    /\ pc = "suspicious_dns"
    /\ LET r == _detect_suspicious_dns(flow_records)
       IN  IF r.raised
           THEN Handler("suspicious_dns", r.error) /\ suspicious_dns' = suspicious_dns
           ELSE /\ suspicious_dns' = r.value
                /\ pc' = "stats"
                /\ UNCHANGED <<raised, result>>
    /\ flow_records' = FlowsAfterDetector("suspicious_dns", flow_records)
    /\ order' = Append(order, "suspicious_dns")
    /\ UNCHANGED <<Rita, Inputs, beacons, long_connections, exfiltration,
                   port_scans, stats, normalized>>

\* Line 142.
CalculateStats ==
    /\ pc = "stats"
    /\ stats' = _calculate_threat_stats(beacons, long_connections, exfiltration,
                                        port_scans, suspicious_dns)
    /\ pc' = "compile"
    /\ UNCHANGED <<Rita, Inputs, flow_records, beacons, long_connections, exfiltration,
                   port_scans, suspicious_dns, order, normalized, raised, result>>

\* Lines 145-161.
CompileAndReturn ==
    /\ pc = "compile"
    /\ result' =
           [success |-> TRUE,
            stats |-> stats,
            threats |-> _compile_threat_summary(beacons, long_connections,
                            exfiltration, port_scans, suspicious_dns, now),
            processing_info |-> Len(raw),
            analysis_details |->
                [beacons |-> Len(beacons),
                 long_connections |-> Len(long_connections),
                 data_exfiltration |-> Len(exfiltration),
                 port_scans |-> Len(port_scans),
                 suspicious_dns |-> Len(suspicious_dns),
                 total_flows_analyzed |-> Len(flow_records),
                 time_period_minutes |-> time_period_minutes]]
    /\ pc' = "done"
    /\ UNCHANGED <<Rita, Inputs, Locals, raised>>

(***************************************************************************)
(* Inputs.  Flow lists are built from blocks of flows that share a tuple   *)
(* and follow a timing pattern; every size set straddles the threshold of  *)
(* the detector the block is meant for.                                    *)
(***************************************************************************)
MaxBeaconFlows == 15      \* the largest ordinary beacon group
MaxNoise == 2             \* non-ACCEPT flows mixed into a beacon tuple
MaxScanPorts == 11        \* distinct rejected ports of a scan block
MaxRepeat == 2            \* repeated flows to an already rejected port
MaxDests == 13            \* external destinations of an exfiltration block
DnsBurst == 101           \* queries of a DNS burst just above 1000 per hour
DnsFlood == 351           \* queries of a DNS burst just above 3500 per hour
Clock0 == 500000          \* the wall clock of the first call
ClockTicks == 1           \* the repeated call reads Clock0 .. Clock0 + ClockTicks

HostA == <<10, 0, 0, 5>>
HostB == <<10, 0, 0, 6>>
TestNet == <<203, 0, 113, 9>>
Pub(i) == <<8, 8, 8, i>>

Flow(t, aware, src, dst, port, act, bytes, dur) ==
    FlowRecord([t |-> t, aware |-> aware], src, dst, 40000, port, "TCP", act,
               bytes, 1, dur)

\* Timing patterns <<step, jitter>>: flow i is at (i-1)*step, every second
\* flow jitter seconds later.
TimeAt(pat, i) == (i - 1) * pat[1] + (IF i % 2 = 0 THEN pat[2] ELSE 0)

Regular == {<<0, 0>>, <<20, 0>>, <<45, 0>>, <<300, 0>>, <<5000, 0>>, <<8000, 0>>}
Jittered == {<<300, 200>>, <<40, 300>>, <<20, 2000>>}

BeaconBlock(n, dst, port, act, pat, aware) ==
    [i \in 1..n |-> Flow(TimeAt(pat, i), aware, HostA, dst, port, act, 1024, 0)]

\* A beacon tuple with k non-ACCEPT flows of the same tuple in front.
NoisyBeaconBlock(n, k, port, act) ==
    [i \in 1..k |-> Flow(300 * i + 7, TRUE, HostA, TestNet, port, act, 1024, 0)]
    \o BeaconBlock(n, TestNet, port, "ACCEPT", <<300, 0>>, TRUE)

BeaconInputs ==
    {BeaconBlock(n, TestNet, port, "ACCEPT", pat, TRUE) :
        n \in (BEACON_MIN_CONNECTIONS - 1)..MaxBeaconFlows,
        port \in {443, 4444}, pat \in Regular \cup Jittered}
    \cup {Reverse(BeaconBlock(n, TestNet, 4444, act, pat, FALSE)) :
        n \in {BEACON_MIN_CONNECTIONS, MaxBeaconFlows}, act \in {"ACCEPT", "accept"},
        pat \in {<<300, 0>>, <<40, 300>>}}
    \cup {NoisyBeaconBlock(n, k, port, act) :
        n \in {BEACON_MIN_CONNECTIONS - 1, BEACON_MIN_CONNECTIONS}, k \in 1..MaxNoise,
        port \in {443, 4444}, act \in {"REJECT", "drop"}}
    \cup {BeaconBlock(60, TestNet, 4444, "ACCEPT", <<300, 0>>, TRUE)}

\* Two beacon tuples in one list: equal or different scores, either order.
TwoBeaconInputs ==
    {BeaconBlock(n1, TestNet, 4444, "ACCEPT", p1, TRUE)
       \o BeaconBlock(n2, Pub(1), 5555, "ACCEPT", p2, TRUE) :
        n1 \in {BEACON_MIN_CONNECTIONS, 12}, n2 \in {BEACON_MIN_CONNECTIONS, 12},
        p1 \in {<<300, 0>>, <<20, 0>>}, p2 \in {<<300, 0>>, <<20, 0>>}}

\* Flows that carry durations, between two internal hosts.
LongBlock(durations, bytes, port) ==
    [i \in 1..Len(durations) |->
        Flow(100 * i, TRUE, HostA, HostB, port, "ACCEPT", bytes, durations[i])]

DurationLists ==
    {<<0>>, <<1800>>, <<LONG_CONN_MIN_DURATION - 1>>, <<LONG_CONN_MIN_DURATION>>,
     <<1800, 1800>>, <<1800, 1799>>, <<0, 3600>>, <<-600, 4000>>,
     <<25000>>, <<43200>>, <<50000, 36400>>}

LongInputs ==
    {LongBlock(ds, bytes, port) :
        ds \in DurationLists, bytes \in {1024, 1000 * MiB}, port \in {443, 4444}}

\* HostA sends total bytes to d external destinations over span seconds, the
\* last destination receiving the remainder of the even split plus skew; the
\* first destination sends back inb bytes, and so does a host that is no
\* destination of HostA (back = TRUE).
ExfilBlock(total, skew, d, inb, span, back) ==
    LET per == (total - skew) \div d
        out == [i \in 1..d |->
                   Flow(IF d = 1 THEN 0 ELSE ((i - 1) * span) \div (d - 1), TRUE,
                        HostA, Pub(i), 440 + i,
                        "ACCEPT", IF i = d THEN total - per * (d - 1) ELSE per, 0)]
    IN  out
        \o (IF inb > 0 THEN <<Flow(10, TRUE, Pub(1), HostA, 40000, "ACCEPT", inb, 0)>>
            ELSE <<>>)
        \o (IF back THEN <<Flow(20, TRUE, Pub(200), HostA, 40000, "ACCEPT", 50 * MiB, 0)>>
            ELSE <<>>)

ExfilInputs ==
    {ExfilBlock(total, 0, d, inb, span, FALSE) :
        total \in {99 * MiB, EXFIL_MIN_BYTES - 1024, EXFIL_MIN_BYTES, 150 * MiB},
        d \in {1, 2} \cup 12..MaxDests,
        inb \in {0, MiB, 20 * MiB}, span \in {0, 1800, 3600, 7200}}
    \cup {ExfilBlock(total, skew, d, MiB, 3600, back) :
        total \in {150 * MiB, 1200 * MiB, 2000 * MiB}, skew \in {0, 12 * MiB},
        d \in {2, 12}, back \in BOOLEAN}

\* HostB is refused on k distinct ports of HostA from base + 1 on, then r more
\* times on the first of them, and accepted on m further ports.
ScanBlock(k, r, m, act, base) ==
    [i \in 1..k |-> Flow(i, TRUE, HostB, HostA, base + i, act, 1024, 0)]
    \o [i \in 1..r |-> Flow(100 + i, TRUE, HostB, HostA, base + 1, act, 1024, 0)]
    \o [i \in 1..m |-> Flow(200 + i, TRUE, HostB, HostA, base + 100 + i, "ACCEPT", 1024, 0)]

ScanInputs ==
    {ScanBlock(k, r, m, act, base) :
        k \in (PORT_SCAN_MIN_PORTS - 1)..MaxScanPorts, r \in 0..MaxRepeat,
        m \in {0, 2}, act \in {"REJECT", "drop"}, base \in {20, 1018, 2000}}
    \cup {ScanBlock(k, 0, 0, "DROP", 3000) : k \in {8, 25, 60}}

\* n queries from HostB to port 53 of HostA spread over span seconds.
DnsBlock(n, span, act) ==
    [i \in 1..n |-> Flow(((i - 1) * span) \div (n - 1), TRUE, HostB, HostA, 53,
                         act, 1024, 0)]

DnsInputs ==
    {DnsBlock(n, span, "REJECT") :
        n \in {DNS_MIN_QUERIES - 1, DNS_MIN_QUERIES, DnsBurst - 1, DnsBurst},
        span \in {0, 360, 400}}
    \cup {DnsBlock(DnsBurst, 300, "ACCEPT")}
    \cup {DnsBlock(n, 300, "REJECT") : n \in {DnsFlood - 1, DnsFlood}}

\* Lists on which several detectors find something.
MixedInputs ==
    {BeaconBlock(n, TestNet, 4444, "ACCEPT", <<300, 0>>, TRUE)
       \o ScanBlock(k, 0, 0, "REJECT", 2000)
       \o LongBlock(ds, 1024, 4444)
       \o ExfilBlock(150 * MiB, 0, 12, MiB, 3600, FALSE)
       \o DnsBlock(DnsBurst, 300, "REJECT") :
        n \in {BEACON_MIN_CONNECTIONS, MaxBeaconFlows},
        k \in {PORT_SCAN_MIN_PORTS, 60},
        ds \in {<<43200>>, <<50000, 36400>>}}

\* Two beacon tuples of equal score followed by a scan that outranks both.
TiedThenHigherInputs ==
    {BeaconBlock(BEACON_MIN_CONNECTIONS, TestNet, 4444, "ACCEPT", <<300, 0>>, TRUE)
       \o BeaconBlock(BEACON_MIN_CONNECTIONS, Pub(1), 5555, "ACCEPT", <<300, 0>>, TRUE)
       \o ScanBlock(k, 0, 0, "DROP", 3000) : k \in {25, 60}}

\* Every group collapsed onto one instant: a beacon tuple with intervals of 0,
\* an exfiltration with a window of 0 and nothing inbound, a DNS burst with a
\* span of 0, and flows whose durations are 0.
DegenerateInputs ==
    {BeaconBlock(n, TestNet, 4444, "ACCEPT", <<0, 0>>, TRUE)
       \o ExfilBlock(150 * MiB, 0, 2, 0, 0, FALSE)
       \o DnsBlock(DnsBurst, 0, "REJECT")
       \o LongBlock(<<0, 0>>, 1024, 4444) :
        n \in {BEACON_MIN_CONNECTIONS, MaxBeaconFlows}}

\* A beacon tuple and a long connection on a port below 1024 that is no
\* member of COMMON_PORTS (123), and so no member of SUSPICIOUS_PORTS either.
LowPortInputs ==
    {BeaconBlock(n, TestNet, 123, "ACCEPT", <<300, 0>>, TRUE)
       \o LongBlock(ds, 1024, 123) :
        n \in {BEACON_MIN_CONNECTIONS, MaxBeaconFlows},
        ds \in {<<43200>>, <<50000, 36400>>}}

\* Lists whose candidates differ in severity: a jittered beacon tuple, a scan
\* of few or many ports, a long connection of a day with little or much data,
\* and a DNS burst.
SeverityMixInputs ==
    {BeaconBlock(n, TestNet, 443, "ACCEPT", pat, TRUE)
       \o ScanBlock(k, 0, 0, "DROP", base)
       \o LongBlock(<<50000, 36400>>, bytes, 4444)
       \o DnsBlock(DnsBurst, 300, "REJECT") :
        n \in {BEACON_MIN_CONNECTIONS, MaxBeaconFlows}, pat \in Jittered,
        k \in {PORT_SCAN_MIN_PORTS, 60}, base \in {20, 3000},
        bytes \in {1024, 1000 * MiB}}

\* One tuple that is a beacon and a long connection at once (n accepted flows
\* 100 s apart that last 8640 s each), and a host that both scans and floods
\* DNS queries.
SharedKeyInputs ==
    {LongBlock([i \in 1..n |-> 8640], 1024, 4444)
       \o ScanBlock(PORT_SCAN_MIN_PORTS, 0, 0, "REJECT", 2000)
       \o DnsBlock(DnsBurst, 300, "REJECT") :
        n \in {BEACON_MIN_CONNECTIONS, MaxBeaconFlows}}

DetectorInputs ==
    BeaconInputs \cup TwoBeaconInputs \cup LongInputs \cup ExfilInputs
    \cup ScanInputs \cup DnsInputs \cup MixedInputs \cup TiedThenHigherInputs
    \cup DegenerateInputs \cup LowPortInputs \cup SeverityMixInputs
    \cup SharedKeyInputs

(***************************************************************************)
(* Raw records, as the log query returns them.                             *)
(***************************************************************************)
Missing == [kind |-> "missing"]
Iso(t, aware) == [kind |-> "iso", t |-> t, aware |-> aware]
IntPort(n) == [kind |-> "int", v |-> n]

RawFlow(time, src, dst, port, act, start_time, end_time) ==
    [Time |-> time, SourceIP |-> src, DestinationIP |-> dst,
     SourcePort |-> IntPort(40000), DestinationPort |-> port, Action |-> act,
     StartTime |-> start_time, EndTime |-> end_time]

RawBeaconBlock(n, port, pat, aware) ==
    [i \in 1..n |-> RawFlow(Iso(TimeAt(pat, i), aware), HostA, TestNet,
                            IntPort(port), "ACCEPT", Missing, Missing)]

\* n - 1 records every 300 s up to 300 s before Clock0, then one without Time.
RawFallbackBlock(n) ==
    [i \in 1..(n - 1) |-> RawFlow(Iso(Clock0 - 300 * (n - i), FALSE), HostA, TestNet,
                                  IntPort(4444), Absent, Missing, Missing)]
    \o <<RawFlow(Missing, HostA, TestNet, IntPort(4444), Absent, Missing, Missing)>>

RawScanBlock(k, act, aware) ==
    [i \in 1..k |-> RawFlow(Iso(i, aware), HostB, HostA, IntPort(2000 + i), act,
                            Missing, Missing)]

RawLongBlock(seconds, aware) ==
    <<RawFlow(Iso(50, aware), HostA, HostB, IntPort(4444), "ACCEPT",
              Iso(0, aware), Iso(seconds, aware))>>

RawDnsBlock(n, span, aware) ==
    [i \in 1..n |-> RawFlow(Iso(((i - 1) * span) \div (n - 1), aware), HostB, HostA,
                            IntPort(53), "REJECT", Missing, Missing)]

\* n records from HostA, one to each of n external destinations.
RawOutboundBlock(n) ==
    [i \in 1..n |-> RawFlow(Iso(i, TRUE), HostA, Pub(i), IntPort(443), "ACCEPT",
                            Missing, Missing)]

\* Two records of one tuple whose timestamps differ in awareness.
RawMixedPair(src, dst, port, act, seconds) ==
    <<RawFlow(Iso(0, TRUE), src, dst, IntPort(port), act, Iso(0, TRUE), Iso(seconds, TRUE)),
      RawFlow(Iso(60, FALSE), src, dst, IntPort(port), act, Iso(0, TRUE), Iso(seconds, TRUE))>>

\* Lists on which a detector raises.
RaisingInputs ==
    {RawMixedPair(HostA, Pub(1), 443, "ACCEPT", 0),       \* exfiltration
     RawMixedPair(HostA, HostB, 4444, "ACCEPT", 40000),   \* long connections
     <<RawFlow(Iso(0, TRUE), HostA, HostB, IntPort(443), None, Missing, Missing)>>,
     RawBeaconBlock(BEACON_MIN_CONNECTIONS - 1, 4444, <<300, 0>>, TRUE)
        \o RawBeaconBlock(1, 4444, <<300, 0>>, FALSE),    \* beacons
     RawDnsBlock(DNS_MIN_QUERIES - 1, 300, TRUE)
        \o RawDnsBlock(2, 300, FALSE)}                    \* DNS

\* Records the normalizer treats specially.
OddRecords ==
    {RawFlow(time, src, dst, port, act, Missing, Missing) :
        time \in {Iso(5, TRUE)}, src \in {HostA}, dst \in {HostB},
        port \in {IntPort(443)}, act \in {"ACCEPT"}}
    \cup {RawFlow(time, HostA, HostB, IntPort(443), "ACCEPT", Missing, Missing) :
        time \in {Missing, [kind |-> "badstr"], [kind |-> "other"],
                  [kind |-> "int", millions |-> 0, units |-> 7],
                  [kind |-> "int", millions |-> 1000001, units |-> 9000]}}
    \cup {RawFlow(Iso(6, TRUE), src, dst, IntPort(443), "ACCEPT", Missing, Missing) :
        src \in {<<>>, HostA}, dst \in {<<>>, Pub(1)}}
    \cup {RawFlow(Iso(7, TRUE), HostA, HostB, port, Absent, Missing, Missing) :
        port \in {Missing, [kind |-> "numstr", v |-> 8080], [kind |-> "bad"]}}
    \cup {RawFlow(Iso(8, TRUE), HostA, HostB, IntPort(22), "ACCEPT", start_time, end_time) :
        start_time \in {Iso(0, TRUE), [kind |-> "badstr"]},
        end_time \in {Iso(90, TRUE), Iso(90, FALSE)}}

\* An odd record between a later and an earlier ordinary one.
GappedInputs ==
    {<<RawFlow(Iso(900, TRUE), HostA, HostB, IntPort(443), "ACCEPT", Missing, Missing),
       r,
       RawFlow(Iso(1, TRUE), HostA, HostB, IntPort(443), "ACCEPT", Missing, Missing)>> :
        r \in OddRecords}

NormalizerInputs ==
    {<<r1>> : r1 \in OddRecords} \cup {<<r1, r2>> : r1 \in OddRecords, r2 \in OddRecords}
    \cup GappedInputs

RawInputs ==
    {RawBeaconBlock(n, port, pat, aware) :
        n \in {BEACON_MIN_CONNECTIONS - 1, BEACON_MIN_CONNECTIONS, MaxBeaconFlows},
        port \in {443, 4444}, pat \in {<<300, 0>>, <<20, 0>>, <<300, 200>>},
        aware \in BOOLEAN}
    \cup {RawFallbackBlock(n) : n \in {BEACON_MIN_CONNECTIONS, MaxBeaconFlows}}
    \cup {RawScanBlock(k, act, TRUE) :
        k \in (PORT_SCAN_MIN_PORTS - 1)..MaxScanPorts, act \in {"REJECT", "DROP", "drop"}}
    \cup {RawLongBlock(seconds, TRUE) : seconds \in {3000, 43200, 86400}}
    \cup {RawDnsBlock(n, 300, TRUE) : n \in {DnsBurst - 1, DnsBurst}}
    \cup {RawBeaconBlock(n, 4444, <<300, 0>>, aware) \o RawScanBlock(k, "REJECT", aware)
            \o RawLongBlock(86400, aware) \o RawDnsBlock(DnsBurst, 300, aware) :
        n \in {BEACON_MIN_CONNECTIONS, MaxBeaconFlows}, k \in {PORT_SCAN_MIN_PORTS, 60},
        aware \in BOOLEAN}
    \cup RaisingInputs
    \cup {RawScanBlock(PORT_SCAN_MIN_PORTS, "REJECT", TRUE) \o bad : bad \in RaisingInputs}
    \cup {RawOutboundBlock(n) : n \in {1, MaxDests}}
    \cup NormalizerInputs

(***************************************************************************)
(* Specifications.                                                         *)
(***************************************************************************)
InitLocals ==
    /\ flow_records = <<>>
    /\ beacons = <<>>
    /\ long_connections = <<>>
    /\ exfiltration = <<>>
    /\ port_scans = <<>>
    /\ suspicious_dns = <<>>
    /\ stats = NoStats
    /\ order = <<>>
    /\ normalized = <<>>
    /\ raised = ""
    /\ result = NoResult

\* A call of analyze_vcn_flows: the query succeeds with a list of RawInputs
\* or with no record, fails, or raises.
Init ==
    /\ pc = "get_data"
    /\ time_period_minutes \in {60, 1440}
    /\ upstream \in {"ok", "failed", "raised"}
    /\ raw \in IF upstream = "ok" THEN RawInputs \cup {<<>>} ELSE {<<>>}
    /\ now = Clock0
    /\ run = 1
    /\ prev = NoResult
    /\ InitLocals
    /\ RitaIdle

\* The caller runs the analysis again on the same records at a later instant.
AnalyzeAgain ==
    /\ pc = "done"
    /\ run = 1
    /\ run' = 2
    /\ prev' = result
    /\ now' \in Clock0..(Clock0 + ClockTicks)
    /\ pc' = "get_data"
    /\ flow_records' = <<>>
    /\ beacons' = <<>>
    /\ long_connections' = <<>>
    /\ exfiltration' = <<>>
    /\ port_scans' = <<>>
    /\ suspicious_dns' = <<>>
    /\ stats' = NoStats
    /\ order' = <<>>
    /\ normalized' = <<>>
    /\ raised' = ""
    /\ result' = NoResult
    /\ UNCHANGED <<Rita, time_period_minutes, upstream, raw>>

Next ==
    \/ GetData
    \/ Parse
    \/ DetectBeacons
    \/ DetectLongConnections
    \/ DetectDataExfiltration
    \/ DetectPortScanning
    \/ DetectSuspiciousDns
    \/ CalculateStats
    \/ CompileAndReturn
    \/ AnalyzeAgain

Spec == Init /\ [][Next]_vars

\* The detectors, the statistics and the summary applied to a flow list
\* (lines 135-161), for every flow list of DetectorInputs.
InitDet ==
    /\ pc = "beacons"
    /\ time_period_minutes = 1440
    /\ upstream = "ok"
    /\ raw = <<>>
    /\ now = Clock0
    /\ run = 1
    /\ prev = NoResult
    /\ flow_records \in DetectorInputs
    /\ beacons = <<>>
    /\ long_connections = <<>>
    /\ exfiltration = <<>>
    /\ port_scans = <<>>
    /\ suspicious_dns = <<>>
    /\ stats = NoStats
    /\ order = <<>>
    /\ normalized = flow_records
    /\ raised = ""
    /\ result = NoResult
    /\ RitaIdle

NextDet ==
    \/ DetectBeacons
    \/ DetectLongConnections
    \/ DetectDataExfiltration
    \/ DetectPortScanning
    \/ DetectSuspiciousDns
    \/ CalculateStats
    \/ CompileAndReturn

SpecDet == InitDet /\ [][NextDet]_vars

\* Nothing in lines 135-139 passes a detector's result to another detector:
\* each call takes flow_records alone.  RunDetector is such a call made at any
\* position among the five.
RunDetector(d) ==
    /\ pc = "detectors"
    /\ d \notin Range(order)
    /\ \E r \in {Outcome(d, flow_records)} :
           IF r.raised
           THEN /\ Handler(d, r.error)
                /\ UNCHANGED <<beacons, long_connections, exfiltration, port_scans,
                               suspicious_dns>>
           ELSE /\ beacons' = IF d = "beacons" THEN r.value ELSE beacons
                /\ long_connections' =
                       IF d = "long_connections" THEN r.value ELSE long_connections
                /\ exfiltration' =
                       IF d = "data_exfiltration" THEN r.value ELSE exfiltration
                /\ port_scans' = IF d = "port_scans" THEN r.value ELSE port_scans
                /\ suspicious_dns' =
                       IF d = "suspicious_dns" THEN r.value ELSE suspicious_dns
                /\ pc' = IF Range(order) \cup {d} = Detectors THEN "stats"
                         ELSE "detectors"
                /\ UNCHANGED <<raised, result>>
    /\ flow_records' = FlowsAfterDetector(d, flow_records)
    /\ order' = Append(order, d)
    /\ UNCHANGED <<Rita, Inputs, stats, normalized>>

\* Lists on which what a detector reports depends on the order of the list:
\* the destinations of an even split newest first, refused DNS queries that
\* count as one more refused port of a scan, two tied beacon tuples newest
\* first; a list whose beacon tuple mixes aware and naive timestamps; and two
\* flows of which one has no action and whose timestamps differ in awareness.
AnyOrderInputs ==
    {Reverse(ExfilBlock(150 * MiB, 0, 12, MiB, 3600, FALSE))
       \o BeaconBlock(BEACON_MIN_CONNECTIONS, TestNet, 4444, "ACCEPT", <<300, 0>>, TRUE)
       \o DnsBlock(DnsBurst, 300, "REJECT")
       \o ScanBlock(PORT_SCAN_MIN_PORTS - 1, 0, 0, "REJECT", 2000)
       \o LongBlock(<<43200>>, 1024, 4444)}
    \cup {Reverse(ExfilBlock(150 * MiB, 0, 12, MiB, 3600, FALSE))
            \o ScanBlock(k, 0, 0, "REJECT", 2000)
            \o LongBlock(<<43200>>, 1024, 4444) :
        k \in {PORT_SCAN_MIN_PORTS - 1, PORT_SCAN_MIN_PORTS}}
    \cup {Reverse(BeaconBlock(n, TestNet, 4444, "ACCEPT", <<300, 0>>, TRUE)
                  \o BeaconBlock(n, Pub(1), 5555, "ACCEPT", <<300, 0>>, TRUE))
            \o ScanBlock(PORT_SCAN_MIN_PORTS, 0, 0, "REJECT", 2000) :
        n \in {BEACON_MIN_CONNECTIONS, MaxBeaconFlows}}
    \cup {BeaconBlock(BEACON_MIN_CONNECTIONS, TestNet, 4444, "ACCEPT", <<300, 0>>, TRUE)
            \o BeaconBlock(1, TestNet, 4444, "ACCEPT", <<300, 0>>, FALSE)
            \o ScanBlock(PORT_SCAN_MIN_PORTS, 0, 0, "REJECT", 2000),
          <<Flow(0, TRUE, HostA, Pub(1), 443, "ACCEPT", 1024, 0),
            Flow(60, FALSE, HostA, Pub(1), 443, None, 1024, 0)>>}

InitAnyOrder ==
    /\ pc = "detectors"
    /\ time_period_minutes = 1440
    /\ upstream = "ok"
    /\ raw = <<>>
    /\ now = Clock0
    /\ run = 1
    /\ prev = NoResult
    /\ flow_records \in AnyOrderInputs
    /\ beacons = <<>>
    /\ long_connections = <<>>
    /\ exfiltration = <<>>
    /\ port_scans = <<>>
    /\ suspicious_dns = <<>>
    /\ stats = NoStats
    /\ order = <<>>
    /\ normalized = flow_records
    /\ raised = ""
    /\ result = NoResult
    /\ RitaIdle

NextAnyOrder ==
    \/ \E d \in Detectors : RunDetector(d)
    \/ CalculateStats
    \/ CompileAndReturn

SpecAnyOrder == InitAnyOrder /\ [][NextAnyOrder]_vars

(***************************************************************************)
(* RITAAnalyzer (scripts/rita_analyzer.py).  Each analysis sends one query *)
(* through LoganClient.execute_query, which raises or returns a dict with  *)
(* the keys success and results; a result row is [Action, Count].          *)
(***************************************************************************)
QueryRaises == [kind |-> "raises", success |-> FALSE, results |-> <<>>]
QueryReturns(success, results) ==
    [kind |-> "returns", success |-> success, results |-> results]

\* str(e) of the exception execute_query raises.
QueryError == "query failed"
\* str(e) of int('n/a').
ValueError == "invalid literal for int() with base 10: 'n/a'"

RitaAnalyses == {"beacons", "long_connections", "dns_tunneling"}

\* datetime.now().isoformat(): a naive instant.
NowLocal(clock) == [t |-> clock, aware |-> FALSE]

\* (datetime.now() - timedelta(hours=h)).isoformat(), h hours as a rational.
HoursAgo(clock, h) == [t |-> clock - RInt(RMul(h, <<3600, 1>>)), aware |-> FALSE]

_get_severity_from_score(score) ==
    IF RLeq(<<90, 1>>, score) THEN "critical"
    ELSE IF RLeq(<<70, 1>>, score) THEN "high"
    ELSE IF RLeq(<<50, 1>>, score) THEN "medium"
    ELSE "low"

_generate_demo_beacons(minutes, clock) ==
    <<[id |-> <<"beacon_demo", 1>>, type |-> "beacon", severity |-> "critical",
       score |-> <<185, 2>>, source_ip |-> <<10, 0, 1, 15>>,
       destination_ip |-> <<198, 51, 100, 42>>,
       destination_host |-> "suspicious-domain.com",
       connection_count |-> 1847, confidence |-> <<97, 1>>,
       first_seen |-> HoursAgo(clock, R(minutes, 60)), last_seen |-> NowLocal(clock),
       duration_hours |-> R(minutes, 60), bytes_transferred |-> 945152,
       details |-> [beacon_intervals |-> 43, avg_interval_seconds |-> 1800,
                    jitter_percentage |-> <<16, 5>>,
                    consistency_score |-> <<947, 10>>]],
      [id |-> <<"beacon_demo", 2>>, type |-> "beacon", severity |-> "high",
       score |-> <<783, 10>>, source_ip |-> <<10, 0, 2, 23>>,
       destination_ip |-> <<203, 0, 113, 15>>,
       connection_count |-> 632, confidence |-> <<83, 1>>,
       first_seen |-> HoursAgo(clock, R(minutes, 60)), last_seen |-> NowLocal(clock),
       duration_hours |-> R(minutes, 60), bytes_transferred |-> 324096,
       details |-> [beacon_intervals |-> 18, avg_interval_seconds |-> 3600,
                    jitter_percentage |-> <<64, 5>>,
                    consistency_score |-> <<406, 5>>]]>>

_generate_demo_long_connections(minutes, clock) ==
    <<[id |-> <<"long_conn_demo", 1>>, type |-> "long_connection",
       severity |-> "high", score |-> <<437, 5>>,
       source_ip |-> <<10, 0, 3, 44>>, destination_ip |-> <<172, 16, 0, 100>>,
       connection_count |-> 3,
       bytes_transferred |-> [GiB |-> 2],      \* 2147483648
       duration_hours |-> <<37, 2>>, confidence |-> <<92, 1>>,
       first_seen |-> HoursAgo(clock, <<37, 2>>), last_seen |-> NowLocal(clock),
       details |-> [avg_bytes_per_connection |-> 715827883,
                    estimated_bandwidth |-> 32212,
                    persistence_indicator |-> "High"]]>>

_generate_demo_dns_tunneling(minutes, clock) ==
    <<[id |-> <<"dns_tunnel_demo", 1>>, type |-> "dns_tunneling",
       severity |-> "medium", score |-> <<329, 5>>,
       source_ip |-> <<10, 0, 4, 67>>, destination_ip |-> <<8, 8, 8, 8>>,
       connection_count |-> 2847, bytes_transferred |-> 1456128,
       duration_hours |-> R(minutes, 60), confidence |-> <<71, 1>>,
       first_seen |-> HoursAgo(clock, R(minutes, 60)), last_seen |-> NowLocal(clock),
       details |-> [dns_queries |-> 2847, avg_query_size |-> 512,
                    frequency_indicator |-> "High",
                    size_anomaly |-> "Large queries detected"]]>>

\* The beacon made from row i (enumerate counts from 0) of the query result
\* (lines 64-88): only rows with Count > 1000 make one.
BeaconOfRow(i, conn, minutes, clock) ==
    LET count == conn.Count.v
        beacon_score == RMin(<<95, 1>>,
                             RAdd(<<60, 1>>, RMul(R(count, 10000), <<35, 1>>)))
    IN  [id |-> <<"beacon_demo", i>>, type |-> "beacon",
         severity |-> _get_severity_from_score(beacon_score),
         score |-> beacon_score,
         source_ip |-> <<10, 0, 1, 100 + i>>,
         destination_ip |-> <<203, 0, 113, 10 + i>>,
         connection_count |-> count,
         confidence |-> RMin(<<100, 1>>, RAdd(beacon_score, <<5, 1>>)),
         first_seen |-> HoursAgo(clock, R(minutes, 60)), last_seen |-> NowLocal(clock),
         duration_hours |-> R(minutes, 60), bytes_transferred |-> count * 512,
         details |-> [action_pattern |-> conn.Action,
                      beacon_type |-> "Network action pattern"]]

ScoreOf(t) == t.score

SortedByScore(threats) ==
    SortedBy(threats, [i \in DOMAIN threats |-> ScoreOf(threats[i])], TRUE)

\* The fallback of the except branch (lines 98-108, 136-146, 174-184).
Fallback(key, total_key, demo, minutes, error) ==
    [k \in {"success", key, total_key, "time_period_minutes", "fallback", "error"} |->
        CASE k = "success" -> TRUE
          [] k = key -> demo
          [] k = total_key -> Len(demo)
          [] k = "time_period_minutes" -> minutes
          [] k = "fallback" -> TRUE
          [] k = "error" -> error]

\* The return of the try branch (lines 91-96, 129-134, 167-172).
Analysed(key, total_key, found, minutes) ==
    [k \in {"success", key, total_key, "time_period_minutes"} |->
        CASE k = "success" -> TRUE
          [] k = key -> found
          [] k = total_key -> Len(found)
          [] k = "time_period_minutes" -> minutes]

analyze_beacons(query, minutes, clock) ==
    LET connections == query.results
        Numeric(conn) == conn.Count.kind = "int"
        HighFrequency(i) == connections[i].Count.v > 1000
        hits == SortedList({i \in DOMAIN connections : HighFrequency(i)})
        beacons_found ==
            IF ~query.success \/ query.results = <<>>
            THEN _generate_demo_beacons(minutes, clock)
            ELSE [k \in DOMAIN hits |->
                     BeaconOfRow(hits[k] - 1, connections[hits[k]], minutes, clock)]
    IN  IF query.kind = "raises"
        THEN Fallback("beacons", "total_analyzed_pairs",
                      _generate_demo_beacons(minutes, clock), minutes, QueryError)
        ELSE IF query.success /\ \E i \in DOMAIN connections : ~Numeric(connections[i])
        THEN Fallback("beacons", "total_analyzed_pairs",
                      _generate_demo_beacons(minutes, clock), minutes, ValueError)
        ELSE Analysed("beacons", "total_analyzed_pairs",
                      SortedByScore(beacons_found), minutes)

DurationKey(t) == t.duration_hours

analyze_long_connections(query, minutes, clock) ==
    LET long_conns == _generate_demo_long_connections(minutes, clock)
    IN  IF query.kind = "raises"
        THEN Fallback("long_connections", "total_analyzed", long_conns, minutes,
                      QueryError)
        ELSE Analysed("long_connections", "total_analyzed",
                      SortedBy(long_conns,
                               [i \in DOMAIN long_conns |-> DurationKey(long_conns[i])],
                               TRUE),
                      minutes)

analyze_dns_tunneling(query, minutes, clock) ==
    LET candidates == _generate_demo_dns_tunneling(minutes, clock)
    IN  IF query.kind = "raises"
        THEN Fallback("dns_tunneling", "total_analyzed", candidates, minutes, QueryError)
        ELSE Analysed("dns_tunneling", "total_analyzed", SortedByScore(candidates),
                      minutes)

\* f"Last {m // 60} hours" if m >= 60 else f"Last {m} minutes"
RitaTimeRange(minutes) ==
    IF minutes >= 60 THEN [last |-> minutes \div 60, unit |-> "hours"]
    ELSE [last |-> minutes, unit |-> "minutes"]

get_threat_analytics_summary(b, l, d, minutes, clock) ==
    LET all_threats ==
            (IF b.success THEN b.beacons ELSE <<>>)
            \o (IF l.success THEN l.long_connections ELSE <<>>)
            \o (IF d.success THEN d.dns_tunneling ELSE <<>>)
        OfSeverity(level) == LET Is(t) == t.severity = level
                             IN  Len(SelectSeq(all_threats, Is))
        OfType(type) == LET Is(t) == t.type = type IN Len(SelectSeq(all_threats, Is))
    IN  [success |-> TRUE,
         threats |-> SortedByScore(all_threats),
         stats |-> [total_threats |-> Len(all_threats),
                    critical_threats |-> OfSeverity("critical"),
                    high_threats |-> OfSeverity("high"),
                    medium_threats |-> OfSeverity("medium"),
                    low_threats |-> OfSeverity("low"),
                    beacons_detected |-> OfType("beacon"),
                    long_connections |-> OfType("long_connection"),
                    dns_tunneling |-> OfType("dns_tunneling"),
                    data_exfiltration |-> OfType("data_exfiltration"),
                    analysis_time_range |-> RitaTimeRange(minutes)],
         time_period_minutes |-> minutes,
         analysis_timestamp |-> NowLocal(clock)]

\* The state of the VCNFlowAnalyzer call, which a RITAAnalyzer call leaves alone.
Vcn == <<pc, Inputs, Locals, raised, result>>

\* What follows an analysis: the next analysis of the summary, or the return.
AfterAnalysis(next, returned) ==
    IF rita_call = "summary"
    THEN rita_pc' = next /\ rita_result' = rita_result
    ELSE rita_pc' = "done" /\ rita_result' = returned

AnalyzeBeacons ==
    /\ rita_pc = "beacons"
    /\ beacon_result' = analyze_beacons(rita_queries["beacons"], time_period_minutes, now)
    /\ AfterAnalysis("long_connections", beacon_result')
    /\ UNCHANGED <<Vcn, rita_call, rita_queries, long_conn_result, dns_result>>

AnalyzeLongConnections ==
    /\ rita_pc = "long_connections"
    /\ long_conn_result' =
           analyze_long_connections(rita_queries["long_connections"],
                                    time_period_minutes, now)
    /\ AfterAnalysis("dns_tunneling", long_conn_result')
    /\ UNCHANGED <<Vcn, rita_call, rita_queries, beacon_result, dns_result>>

AnalyzeDnsTunneling ==
    /\ rita_pc = "dns_tunneling"
    /\ dns_result' =
           analyze_dns_tunneling(rita_queries["dns_tunneling"], time_period_minutes, now)
    /\ AfterAnalysis("combine", dns_result')
    /\ UNCHANGED <<Vcn, rita_call, rita_queries, beacon_result, long_conn_result>>

\* Lines 199-227.
CombineThreats ==
    /\ rita_pc = "combine"
    /\ rita_result' = get_threat_analytics_summary(beacon_result, long_conn_result,
                                                   dns_result, time_period_minutes, now)
    /\ rita_pc' = "done"
    /\ UNCHANGED <<Vcn, rita_call, rita_queries, beacon_result, long_conn_result,
                   dns_result>>

\* Rows of "stats count by Action": counts at either side of the 1000 of
\* line 68, scores in every severity band, and a Count that int() rejects.
\* Count is [kind |-> "int", v |-> n], or [kind |-> "bad", v |-> 0] for a value
\* such as 'n/a'.
RitaRow(action, count) == [Action |-> action, Count |-> [kind |-> "int", v |-> count]]
BadRow(action) == [Action |-> action, Count |-> [kind |-> "bad", v |-> 0]]

RitaRows ==
    {<<RitaRow("ACCEPT", 1000)>>,
     <<RitaRow("ACCEPT", 1001), RitaRow("REJECT", 100000)>>,
     <<RitaRow("ACCEPT", 500), RitaRow("REJECT", 5000)>>,
     <<RitaRow("ACCEPT", 5000), BadRow("REJECT")>>}

QueryOutcomes ==
    {QueryRaises, QueryReturns(FALSE, <<>>), QueryReturns(TRUE, <<>>)}
    \cup {QueryReturns(TRUE, rows) : rows \in RitaRows}

\* A call of one method of RITAAnalyzer; no call of VCNFlowAnalyzer.
InitRita ==
    /\ pc = "idle"
    /\ time_period_minutes \in {30, 1440}
    /\ upstream = "ok"
    /\ raw = <<>>
    /\ now = Clock0
    /\ run = 1
    /\ prev = NoResult
    /\ InitLocals
    /\ rita_call \in RitaAnalyses \cup {"summary"}
    /\ rita_pc = IF rita_call = "summary" THEN "beacons" ELSE rita_call
    /\ rita_queries \in [RitaAnalyses -> QueryOutcomes]
    /\ beacon_result = NoResult
    /\ long_conn_result = NoResult
    /\ dns_result = NoResult
    /\ rita_result = NoResult

NextRita ==
    \/ AnalyzeBeacons
    \/ AnalyzeLongConnections
    \/ AnalyzeDnsTunneling
    \/ CombineThreats

SpecRita == InitRita /\ [][NextRita]_vars

(***************************************************************************)
(* Properties.  The helpers below read the flow list and the detector      *)
(* outputs directly; none of them goes through the filter it checks.       *)
(***************************************************************************)
RaisingDetectors(flows) == {d \in Detectors : Outcome(d, flows).raised}

\* What a detector contributes under isolation: nothing when it raises.
Isolated(d, flows) == IF Outcome(d, flows).raised THEN <<>> ELSE Outcome(d, flows).value

DetectorsHaveRun(steps) == pc \in steps

AfterBeacons ==
    {"long_connections", "exfiltration", "port_scans", "suspicious_dns", "stats",
     "compile", "done"}
AfterLongConnections == AfterBeacons \ {"long_connections"}
AfterExfiltration == AfterLongConnections \ {"exfiltration"}
AfterPortScanning == AfterExfiltration \ {"port_scans"}

SuccessfulReport == pc = "done" /\ result.success

\* C1: when exactly one of the five detectors raises on the normalized flows,
\* analyze_vcn_flows still returns a successful report that counts zero
\* candidates for the failing detector, the other four detectors' counts, and
\* lists every threat the other four found.
C1_PartialFailureIsolation ==
    (pc = "done" /\ Cardinality(RaisingDetectors(flow_records)) = 1) =>
        /\ result.success
        /\ result.analysis_details.beacons = Len(Isolated("beacons", flow_records))
        /\ result.analysis_details.long_connections =
               Len(Isolated("long_connections", flow_records))
        /\ result.analysis_details.data_exfiltration =
               Len(Isolated("data_exfiltration", flow_records))
        /\ result.analysis_details.port_scans = Len(Isolated("port_scans", flow_records))
        /\ result.analysis_details.suspicious_dns =
               Len(Isolated("suspicious_dns", flow_records))
        /\ result.threats =
               _compile_threat_summary(Isolated("beacons", flow_records),
                                       Isolated("long_connections", flow_records),
                                       Isolated("data_exfiltration", flow_records),
                                       Isolated("port_scans", flow_records),
                                       Isolated("suspicious_dns", flow_records), now)

\* C2: a second run of the pipeline on the same raw records, at whatever
\* wall-clock instant, returns a report equal to the first in every field,
\* first_seen and last_seen of each threat included.
C2_RepeatedRunIdentical ==
    (pc = "done" /\ run = 2) => result = prev

\* C3: the threats of a successful report are in descending order of score,
\* and threats of equal score are in insertion order: beacons, long
\* connections, exfiltration events, port scans, DNS events, each detector's
\* threats in the order of its output.
C3_ThreatsSortedStable ==
    SuccessfulReport =>
        LET inserted == ThreatsInInsertionOrder(beacons, long_connections,
                            exfiltration, port_scans, suspicious_dns, now)
            threats == result.threats
            InsertedAt(th) == CHOOSE i \in DOMAIN inserted : inserted[i] = th
        IN  /\ Len(threats) = Len(inserted)
            /\ Range(threats) = Range(inserted)
            /\ \A i, j \in DOMAIN threats : i < j =>
                   \/ threats[i].score > threats[j].score
                   \/ /\ threats[i].score = threats[j].score
                      /\ InsertedAt(threats[i]) < InsertedAt(threats[j])

\* A report in which two threats tie and the sort moved a later threat to the front.
C3_Witness ==
    /\ SuccessfulReport
    /\ \E i \in 1..(Len(result.threats) - 1) :
           /\ result.threats[i].score = result.threats[i + 1].score
           /\ result.threats[i].id # result.threats[i + 1].id
    /\ result.threats # ThreatsInInsertionOrder(beacons, long_connections,
                            exfiltration, port_scans, suspicious_dns, now)

\* C4: in a successful report stats.total_threats is the sum of the five
\* per-detector counts, each the number of candidates its detector returned,
\* and is the length of the threats list.
C4_TotalThreatsIsSum ==
    SuccessfulReport =>
        /\ result.stats.beacons_detected = Len(beacons)
        /\ result.stats.long_connections = Len(long_connections)
        /\ result.stats.data_exfiltration = Len(exfiltration)
        /\ result.stats.port_scans = Len(port_scans)
        /\ result.stats.dns_tunneling = Len(suspicious_dns)
        /\ result.stats.total_threats =
               result.stats.beacons_detected + result.stats.long_connections
               + result.stats.data_exfiltration + result.stats.port_scans
               + result.stats.dns_tunneling
        /\ result.stats.total_threats = Len(result.threats)

\* A report to which all five detectors contribute.
C4_Witness ==
    /\ SuccessfulReport
    /\ result.stats.beacons_detected > 0
    /\ result.stats.long_connections > 0
    /\ result.stats.data_exfiltration > 0
    /\ result.stats.port_scans > 0
    /\ result.stats.dns_tunneling > 0

FlowsOfTuple(key) == {i \in DOMAIN flow_records : TupleKey(flow_records[i]) = key}

AcceptedOfTuple(key) ==
    {i \in FlowsOfTuple(key) : upper(flow_records[i].action) = "ACCEPT"}

Tuples == {TupleKey(flow_records[i]) : i \in DOMAIN flow_records}

\* C5: a (source_ip, dest_ip, dest_port) tuple with fewer than 10 ACCEPT flows
\* has no beacon candidate, whatever else the list holds.
C5_FewAcceptsNoBeacon ==
    \A key \in Tuples :
        Cardinality(AcceptedOfTuple(key)) < 10 =>
            \A i \in DOMAIN beacons :
                <<beacons[i].source_ip, beacons[i].dest_ip, beacons[i].dest_port>> # key

\* The beacon detector has returned nothing for a tuple of 9 ACCEPT flows
\* that has 10 or more flows in all.
C5_Witness ==
    /\ DetectorsHaveRun(AfterBeacons)
    /\ beacons = <<>>
    /\ \E key \in Tuples :
           /\ Cardinality(AcceptedOfTuple(key)) = 9
           /\ Cardinality(FlowsOfTuple(key)) >= 10

\* The summed duration of the tuple's connection group: its flows with duration > 0.
GroupDuration(key) ==
    SumSeq([i \in DOMAIN flow_records |->
               IF TupleKey(flow_records[i]) = key /\ flow_records[i].duration > 0
               THEN flow_records[i].duration ELSE 0])

BytesOfTuple(key) ==
    SumSeq([i \in DOMAIN flow_records |->
               IF TupleKey(flow_records[i]) = key THEN flow_records[i].bytes_sent ELSE 0])

\* C6: a tuple whose connection group has a total duration of 0, or any total
\* below 3600 seconds, has no long-connection candidate, whatever its bytes.
C6_ShortGroupNoLongConnection ==
    \A key \in Tuples :
        GroupDuration(key) < 3600 =>
            \A i \in DOMAIN long_connections :
                <<long_connections[i].source_ip, long_connections[i].dest_ip,
                  long_connections[i].dest_port>> # key

\* The long-connection detector has returned nothing for a tuple that lasted
\* 3599 seconds and carried more than 1 GiB.
C6_Witness ==
    /\ DetectorsHaveRun(AfterLongConnections)
    /\ long_connections = <<>>
    /\ \E key \in Tuples :
           /\ GroupDuration(key) = 3599
           /\ BytesOfTuple(key) > GiB

Sources == {flow_records[i].source_ip : i \in DOMAIN flow_records}

OutboundOf(h) ==
    {i \in DOMAIN flow_records :
        /\ flow_records[i].source_ip = h
        /\ flow_records[i].is_internal_src
        /\ ~flow_records[i].is_internal_dst}

PeersOf(h) == {flow_records[i].dest_ip : i \in OutboundOf(h)}

\* Flows from an external peer of h back to h.
ReturnOf(h) ==
    {i \in DOMAIN flow_records :
        /\ flow_records[i].dest_ip = h
        /\ flow_records[i].source_ip \in PeersOf(h)
        /\ ~flow_records[i].is_internal_src}

BytesAt(I) ==
    SumSeq([i \in DOMAIN flow_records |-> IF i \in I THEN flow_records[i].bytes_sent ELSE 0])

EventsOfSource(h) == {i \in DOMAIN exfiltration : exfiltration[i].source_ip = h}

\* C7: an internal source with fewer than 100 MiB of outbound bytes to
\* external destinations has no exfiltration event, whatever its ratio.
C7_SmallVolumeNoExfiltration ==
    \A h \in Sources :
        BytesAt(OutboundOf(h)) < 100 * 1024 * 1024 => EventsOfSource(h) = {}

\* The exfiltration detector has returned nothing for a source that sent
\* almost 100 MiB to 12 external peers and received nothing back.
C7_Witness ==
    /\ DetectorsHaveRun(AfterExfiltration)
    /\ exfiltration = <<>>
    /\ \E h \in Sources :
           /\ BytesAt(OutboundOf(h)) = 100 * 1024 * 1024 - 1024
           /\ BytesAt(ReturnOf(h)) = 0
           /\ Cardinality(PeersOf(h)) = 12

HostPairs == {PairKey(flow_records[i]) : i \in DOMAIN flow_records}

RejectedOfPair(pair) ==
    {i \in DOMAIN flow_records :
        /\ PairKey(flow_records[i]) = pair
        /\ upper(flow_records[i].action) \in {"REJECT", "DROP"}}

RejectedPorts(pair) == {flow_records[i].dest_port : i \in RejectedOfPair(pair)}

PortsOfPair(pair) ==
    {flow_records[i].dest_port :
        i \in {j \in DOMAIN flow_records : PairKey(flow_records[j]) = pair}}

ScansOfPair(pair) ==
    {i \in DOMAIN port_scans : <<port_scans[i].source_ip, port_scans[i].dest_ip>> = pair}

\* C8: once the port-scan detector has returned, a (source_ip, dest_ip) pair
\* refused on 9 distinct destination ports (or fewer) has no port-scan event
\* and a pair refused on 10 or more has exactly one, which reports that number
\* of ports; repeated refusals of a port and accepted flows add nothing.
C8_PortScanThreshold ==
    DetectorsHaveRun(AfterPortScanning) =>
        \A pair \in HostPairs :
            /\ Cardinality(RejectedPorts(pair)) <= 9 => ScansOfPair(pair) = {}
            /\ Cardinality(RejectedPorts(pair)) >= 10 =>
                   /\ Cardinality(ScansOfPair(pair)) = 1
                   /\ \A i \in ScansOfPair(pair) :
                          port_scans[i].ports_scanned = Cardinality(RejectedPorts(pair))

\* One event for a pair refused on exactly 10 ports, some of them more than
\* once, that was also accepted on further ports.
C8_Witness ==
    /\ DetectorsHaveRun(AfterPortScanning)
    /\ \E pair \in HostPairs :
           /\ Cardinality(RejectedPorts(pair)) = 10
           /\ Cardinality(RejectedOfPair(pair)) > 10
           /\ Cardinality(PortsOfPair(pair)) > 10
           /\ Cardinality(ScansOfPair(pair)) = 1

\* 15 ACCEPT flows from 10.0.0.5 to 203.0.113.9 port 4444 of 1024 bytes each,
\* one every 300 seconds, in any order of the list.
BeaconScenario ==
    /\ Len(flow_records) = 15
    /\ \A i \in DOMAIN flow_records :
           /\ flow_records[i].source_ip = <<10, 0, 0, 5>>
           /\ flow_records[i].dest_ip = <<203, 0, 113, 9>>
           /\ flow_records[i].dest_port = 4444
           /\ upper(flow_records[i].action) = "ACCEPT"
           /\ flow_records[i].bytes_sent = 1024
           /\ flow_records[i].timestamp.aware = flow_records[1].timestamp.aware
    /\ \E t0 \in {flow_records[i].timestamp.t : i \in DOMAIN flow_records} :
           {flow_records[i].timestamp.t : i \in DOMAIN flow_records}
               = {t0 + 300 * k : k \in 0..14}

\* C9: on the 15-flow beacon scenario the beacon detector returns exactly one
\* candidate, of confidence above 0.3 and severity medium, high or critical.
C9_BeaconScenario ==
    (BeaconScenario /\ DetectorsHaveRun(AfterBeacons)) =>
        /\ Len(beacons) = 1
        /\ RLess(<<3, 10>>, beacons[1].confidence)
        /\ beacons[1].severity \in {"medium", "high", "critical"}
        /\ beacons[1].connection_count = 15

\* The detector has returned its candidate for the scenario.
C9_Witness ==
    /\ BeaconScenario
    /\ pc = "long_connections"
    /\ Len(beacons) = 1
    /\ beacons[1].dest_port = 4444

\* Every flow is sent by the internal host h to an external destination or
\* comes back from one of them: 150 MiB out to 12 destinations within an
\* hour, 1 MiB back.
ExfilScenario(h) ==
    /\ OutboundOf(h) \cup ReturnOf(h) = DOMAIN flow_records
    /\ Cardinality(PeersOf(h)) = 12
    /\ BytesAt(OutboundOf(h)) = 150 * 1024 * 1024
    /\ BytesAt(ReturnOf(h)) = 1024 * 1024
    /\ \A i, j \in OutboundOf(h) :
           /\ flow_records[i].timestamp.aware = flow_records[j].timestamp.aware
           /\ flow_records[i].timestamp.t - flow_records[j].timestamp.t <= 3600

\* C10: on the exfiltration scenario the exfiltration detector returns exactly
\* one event, for the sending host, with exfiltration_ratio at least 10 and
\* severity medium, high or critical.
C10_ExfiltrationScenario ==
    \A h \in Sources :
        (ExfilScenario(h) /\ DetectorsHaveRun(AfterExfiltration)) =>
            /\ Len(exfiltration) = 1
            /\ exfiltration[1].source_ip = h
            /\ RLeq(<<10, 1>>, exfiltration[1].exfiltration_ratio)
            /\ exfiltration[1].severity \in {"medium", "high", "critical"}

\* The detector has returned its event for the scenario with the flows spread
\* over the whole hour.
C10_Witness ==
    /\ pc = "port_scans"
    /\ Len(exfiltration) = 1
    /\ \E h \in Sources :
           /\ ExfilScenario(h)
           /\ \E i, j \in OutboundOf(h) :
                  flow_records[i].timestamp.t - flow_records[j].timestamp.t = 3600

\* The query gave analyze_vcn_flows no record: it failed, raised, or returned
\* an empty list.
UpstreamGaveNothing == upstream # "ok" \/ raw = <<>>

NoDetectorHasRun ==
    /\ flow_records = <<>>
    /\ beacons = <<>>
    /\ long_connections = <<>>
    /\ exfiltration = <<>>
    /\ port_scans = <<>>
    /\ suspicious_dns = <<>>
    /\ raised = ""

\* C11: when the query supplies no record, analyze_vcn_flows returns a report
\* with success = false, a non-empty error text and an empty threats list,
\* and no detector has run.
C11_UpstreamFailure ==
    (pc = "done" /\ UpstreamGaveNothing) =>
        /\ result.success = FALSE
        /\ "error" \in DOMAIN result
        /\ result.error # ""
        /\ NoDetectorHasRun
        /\ "threats" \in DOMAIN result
        /\ result.threats = <<>>

\* What the code does keep of C11: a failed report with an error text and no
\* detector run.
UpstreamFailureReported ==
    (pc = "done" /\ UpstreamGaveNothing) =>
        /\ result.success = FALSE
        /\ result.error = "No VCN flow data found"
        /\ NoDetectorHasRun

\* The list analyze_vcn_flows holds for detector d.
ListOf(d) ==
    CASE d = "beacons" -> beacons
      [] d = "long_connections" -> long_connections
      [] d = "data_exfiltration" -> exfiltration
      [] d = "port_scans" -> port_scans
      [] d = "suspicious_dns" -> suspicious_dns

SourceOrder ==
    <<"beacons", "long_connections", "data_exfiltration", "port_scans", "suspicious_dns">>

\* The report of the calls made in the order of the source, lines 135-161.
SequentialReport(flows, clock) ==
    IF RaisingDetectors(flows) # {}
    THEN LET i == CHOOSE i \in DOMAIN SourceOrder :
                      /\ Outcome(SourceOrder[i], flows).raised
                      /\ \A j \in 1..(i - 1) : ~Outcome(SourceOrder[j], flows).raised
         IN  Failure(Outcome(SourceOrder[i], flows).error)
    ELSE LET bs == _detect_beacons(flows).value
             lcs == _detect_long_connections(flows).value
             exs == _detect_data_exfiltration(flows).value
             scans == _detect_port_scanning(flows).value
             dns_events == _detect_suspicious_dns(flows).value
         IN  [success |-> TRUE,
              stats |-> _calculate_threat_stats(bs, lcs, exs, scans, dns_events),
              threats |-> _compile_threat_summary(bs, lcs, exs, scans, dns_events,
                                                  clock),
              processing_info |-> Len(raw),
              analysis_details |->
                  [beacons |-> Len(bs),
                   long_connections |-> Len(lcs),
                   data_exfiltration |-> Len(exs),
                   port_scans |-> Len(scans),
                   suspicious_dns |-> Len(dns_events),
                   total_flows_analyzed |-> Len(flows),
                   time_period_minutes |-> time_period_minutes]]

\* Every list a detector has returned is the list it returns when it is the
\* only one called on the normalized flow list.
ListsAsWhenCalledAlone ==
    \A i \in DOMAIN order :
        ~Outcome(order[i], normalized).raised =>
            ListOf(order[i]) = Outcome(order[i], normalized).value

DetectorAndAggregationSteps ==
    {"detectors", "beacons", "long_connections", "exfiltration", "port_scans",
     "suspicious_dns", "stats", "compile"}

\* A candidate list changes only in a step that is the call of its detector.
WritesOwnListOnly ==
    /\ beacons' # beacons => order' = Append(order, "beacons")
    /\ long_connections' # long_connections => order' = Append(order, "long_connections")
    /\ exfiltration' # exfiltration => order' = Append(order, "data_exfiltration")
    /\ port_scans' # port_scans => order' = Append(order, "port_scans")
    /\ suspicious_dns' # suspicious_dns => order' = Append(order, "suspicious_dns")

FrameStep ==
    pc \in DetectorAndAggregationSteps =>
        /\ flow_records' = flow_records
        /\ WritesOwnListOnly

SeverityLevels == {"low", "medium", "high", "critical"}

\* C14: every candidate in any of the five lists the detectors return has a
\* confidence between 0 and 1, both included, and a severity that is one of
\* low, medium, high, critical.
C14_ConfidenceAndSeverityRange ==
    \A d \in Detectors : \A i \in DOMAIN ListOf(d) :
        /\ RLeq(Zero, ListOf(d)[i].confidence)
        /\ RLeq(ListOf(d)[i].confidence, One)
        /\ ListOf(d)[i].severity \in SeverityLevels

\* A scan of sixty suspicious ports, whose uncapped score would be 1.1, is in
\* the report with confidence 0.9.
C14_Witness ==
    /\ pc = "done"
    /\ \E i \in DOMAIN port_scans :
           /\ port_scans[i].ports_scanned = 60
           /\ port_scans[i].suspicious_ports = 60
           /\ port_scans[i].confidence = <<9, 10>>

\* The id _compile_threat_summary gives the threat made from candidate c of
\* detector d.
ThreatIdOf(d, c) ==
    CASE d = "beacons" ->
             Joined(<<"beacon", IpText(c.source_ip), IpText(c.dest_ip), ToString(c.dest_port)>>)
      [] d = "long_connections" ->
             Joined(<<"longconn", IpText(c.source_ip), IpText(c.dest_ip), ToString(c.dest_port)>>)
      [] d = "data_exfiltration" -> Joined(<<"exfil", IpText(c.source_ip), IpText(c.dest_ip)>>)
      [] d = "port_scans" -> Joined(<<"portscan", IpText(c.source_ip), IpText(c.dest_ip)>>)
      [] d = "suspicious_dns" -> Joined(<<"dns", IpText(c.source_ip)>>)

\* k is an integer nearest to the rational x: |k - x| <= 1/2.
IsNearestInteger(k, x) ==
    /\ RLeq(RAdd(x, <<-1, 2>>), <<k, 1>>)
    /\ RLeq(<<k, 1>>, RAdd(x, <<1, 2>>))

\* C15: in a successful report, the threat made from any candidate has as its
\* score the integer nearest to the candidate's confidence times 100 (0.438
\* gives 44), and the score lies in 0..100.
C15_ScoreIsRounded ==
    SuccessfulReport =>
        \A d \in Detectors : \A i \in DOMAIN ListOf(d) :
            \E j \in DOMAIN result.threats :
                /\ result.threats[j].id = ThreatIdOf(d, ListOf(d)[i])
                /\ result.threats[j].score \in 0..100
                /\ IsNearestInteger(result.threats[j].score,
                                    RMul(ListOf(d)[i].confidence, <<100, 1>>))

\* What the code does keep of C15: the score is the integer part of the
\* confidence times 100, in 0..100.
ScoreIsTruncated ==
    SuccessfulReport =>
        \A d \in Detectors : \A i \in DOMAIN ListOf(d) :
            \E j \in DOMAIN result.threats :
                /\ result.threats[j].id = ThreatIdOf(d, ListOf(d)[i])
                /\ result.threats[j].score \in 0..100
                /\ RLeq(<<result.threats[j].score, 1>>,
                        RMul(ListOf(d)[i].confidence, <<100, 1>>))
                /\ RLess(RMul(ListOf(d)[i].confidence, <<100, 1>>),
                         <<result.threats[j].score + 1, 1>>)

\* The normalizer has returned.
AfterParse == AfterBeacons \cup {"beacons"}

HasBothIPs(flow) == Len(flow.SourceIP) > 0 /\ Len(flow.DestinationIP) > 0

PortsParse(flow) == flow.SourcePort.kind # "bad" /\ flow.DestinationPort.kind # "bad"

\* Some flow record made from raw record flow carries the instant of the call.
EmittedWithCurrentInstant(flow) ==
    \E j \in DOMAIN normalized :
        /\ normalized[j].source_ip = flow.SourceIP
        /\ normalized[j].dest_ip = flow.DestinationIP
        /\ normalized[j].timestamp = [t |-> now, aware |-> FALSE]

\* C16: every raw record that has both IP addresses (and ports that parse) and
\* a Time value that is neither an epoch integer nor a valid ISO-8601 string
\* is still turned into a flow record, whose timestamp is the current instant.
C16_TimestampFallback ==
    pc \in AfterParse =>
        \A i \in DOMAIN raw :
            (/\ HasBothIPs(raw[i]) /\ PortsParse(raw[i])
             /\ raw[i].Time.kind \in {"badstr", "other"}) =>
                EmittedWithCurrentInstant(raw[i])

\* What the code does keep of C16: the fallback for a Time that is missing or
\* empty, or that is neither an integer nor a string.
TimestampFallbackUnlessText ==
    pc \in AfterParse =>
        \A i \in DOMAIN raw :
            (/\ HasBothIPs(raw[i]) /\ PortsParse(raw[i])
             /\ raw[i].Time.kind \in {"missing", "other"}) =>
                EmittedWithCurrentInstant(raw[i])

BothIPsMissing(flow) == Len(flow.SourceIP) = 0 /\ Len(flow.DestinationIP) = 0

\* The port a kept record gets: the parsed number, 0 when the port is missing
\* or cannot be parsed.
PortOrDefault(v) == IF v.kind \in {"int", "numstr"} THEN v.v ELSE 0

\* C17: for raw records whose Time parses, the normalizer drops a record if
\* and only if both its IP addresses are missing or empty; every other record
\* is kept, in its place, with port 0 for a missing or unparsable port and
\* action ACCEPT for a missing action, whatever was dropped before it.
C17_DroppedIffBothIPsMissing ==
    (pc \in AfterParse /\ \A i \in DOMAIN raw : raw[i].Time.kind # "badstr") =>
        LET kept == AtPositions(raw, {i \in DOMAIN raw : ~BothIPsMissing(raw[i])})
        IN  /\ Len(normalized) = Len(kept)
            /\ \A k \in DOMAIN kept :
                   /\ normalized[k].source_ip = kept[k].SourceIP
                   /\ normalized[k].dest_ip = kept[k].DestinationIP
                   /\ normalized[k].dest_port = PortOrDefault(kept[k].DestinationPort)
                   /\ kept[k].Action = Absent => normalized[k].action = "ACCEPT"

\* What the code does keep of C17: a record is kept if and only if it has
\* both IP addresses and nothing in it raises (here: its ports parse); a
\* dropped record does not stop the records after it.
DroppedUnlessBothIPsAndPortsParse ==
    (pc \in AfterParse /\ \A i \in DOMAIN raw : raw[i].Time.kind # "badstr") =>
        LET kept == AtPositions(raw, {i \in DOMAIN raw :
                                         HasBothIPs(raw[i]) /\ PortsParse(raw[i])})
        IN  /\ Len(normalized) = Len(kept)
            /\ \A k \in DOMAIN kept :
                   /\ normalized[k].source_ip = kept[k].SourceIP
                   /\ normalized[k].dest_ip = kept[k].DestinationIP
                   /\ normalized[k].dest_port = PortOrDefault(kept[k].DestinationPort)
                   /\ kept[k].Action = Absent => normalized[k].action = "ACCEPT"

\* The raw records the normalizer turns into flow records.
Kept(flow) == HasBothIPs(flow) /\ PortsParse(flow) /\ flow.Time.kind # "badstr"

\* Flow record rec carries the fields of raw record flow.
MadeFrom(rec, flow) ==
    /\ rec.source_ip = flow.SourceIP
    /\ rec.dest_ip = flow.DestinationIP
    /\ rec.source_port = PortOrDefault(flow.SourcePort)
    /\ rec.dest_port = PortOrDefault(flow.DestinationPort)
    /\ rec.action = (IF flow.Action = Absent THEN "ACCEPT" ELSE flow.Action)
    /\ flow.Time.kind = "iso" =>
           rec.timestamp = [t |-> flow.Time.t, aware |-> flow.Time.aware]
    /\ flow.Time.kind \in {"missing", "other"} =>
           rec.timestamp = [t |-> now, aware |-> FALSE]

\* C18: the list the normalizer returns is an order-preserving subsequence of
\* its input: it has one flow record for each raw record that is kept, and
\* the record of the n-th kept raw record is at position n, whatever the
\* timestamps are; nothing is duplicated or re-sorted.
C18_OrderPreservingSubsequence ==
    pc = "beacons" =>
        LET K == {i \in DOMAIN raw : Kept(raw[i])}
        IN  /\ Len(flow_records) = Cardinality(K)
            /\ \A i \in K :
                   MadeFrom(flow_records[Cardinality({j \in K : j <= i})], raw[i])

\* Of three raw records the second was dropped, and the two records kept are
\* in input order, the later one first.
C18_Witness ==
    /\ pc = "beacons"
    /\ Len(raw) = 3
    /\ ~Kept(raw[2])
    /\ Len(flow_records) = 2
    /\ flow_records[2].timestamp.t < flow_records[1].timestamp.t

\* C19: no detector divides by zero on any flow list: no call ends in a
\* ZeroDivisionError, and no candidate carries the result of a division by
\* zero, also when all flows of a group share one timestamp (mean interval 0,
\* time span 0), nothing came back inbound, or the durations are 0.
C19_NoDivisionByZero ==
    /\ raised # "" => result.error # ZeroDivisionError
    /\ \A d \in Detectors : \A i \in DOMAIN ListOf(d) :
           ListOf(d)[i].confidence # DivError

\* All five detectors have returned on a list whose beacon tuple has ten or
\* more flows at one instant, whose exfiltration has a window of 0 and no
\* inbound byte, and whose DNS burst has a span of 0; the exfiltration and
\* the burst are reported.
C19_Witness ==
    /\ pc = "done"
    /\ result.success
    /\ \E k \in Tuples :
           /\ Cardinality(AcceptedOfTuple(k)) >= BEACON_MIN_CONNECTIONS
           /\ \A i, j \in AcceptedOfTuple(k) :
                  flow_records[i].timestamp = flow_records[j].timestamp
    /\ \E i \in DOMAIN exfiltration :
           exfiltration[i].time_window = 0 /\ exfiltration[i].total_bytes_in = 0
    /\ \E i \in DOMAIN suspicious_dns : suspicious_dns[i].time_span_hours = Zero

\* C20: in a successful report, stats.analysis_time_range names the window
\* analyze_vcn_flows was called with: the number of minutes in it is
\* time_period_minutes, the one analysis_details.time_period_minutes shows.
C20_TimeRangeIsTheWindow ==
    SuccessfulReport =>
        /\ result.stats.analysis_time_range = time_period_minutes
        /\ result.stats.analysis_time_range = result.analysis_details.time_period_minutes

\* What the code does keep of C20: analysis_details.time_period_minutes is the
\* argument, and analysis_time_range always names 1440 minutes.
TimeRangeIsFixed ==
    SuccessfulReport =>
        /\ result.analysis_details.time_period_minutes = time_period_minutes
        /\ result.stats.analysis_time_range = 1440

\* The well-known set, as a reading of "outside the well-known set" that
\* covers every port 0..65535.
OutsideWellKnown(port) == port \in 0..65535 /\ port \notin COMMON_PORTS

\* 0.3*min(1, count/100) + 0.4*consistency + 0.2*interval_score
\* + 0.1*port_score, with port_score 0.8 for every port outside the well-known
\* set.
StatedBeaconConfidence(b) ==
    LET count_score == RMin(One, R(b.connection_count, 100))
        m == b.avg_interval
        interval_score ==
            IF RLeq(<<60, 1>>, m) /\ RLeq(m, <<3600, 1>>) THEN One
            ELSE IF \/ RLeq(<<30, 1>>, m) /\ RLess(m, <<60, 1>>)
                    \/ RLess(<<3600, 1>>, m) /\ RLeq(m, <<7200, 1>>) THEN <<7, 10>>
            ELSE IF RLess(m, <<30, 1>>) THEN <<3, 10>>
            ELSE <<1, 10>>
        port_score == IF OutsideWellKnown(b.dest_port) THEN <<8, 10>> ELSE <<3, 10>>
    IN  RAdd(RAdd(RAdd(RMul(<<3, 10>>, count_score),
                       RMul(<<4, 10>>, b.consistency_score)),
                  RMul(<<2, 10>>, interval_score)),
             RMul(<<1, 10>>, port_score))

\* C21: every beacon candidate the detector returns has the confidence
\* 0.3*min(1, count/100) + 0.4*consistency + 0.2*interval_score
\* + 0.1*port_score, where port_score is 0.8 for every port of 0..65535
\* outside the well-known set and 0.3 inside it, and the confidence of an
\* emitted candidate is above 0.3.
C21_BeaconConfidence ==
    \A i \in DOMAIN beacons :
        /\ beacons[i].confidence = StatedBeaconConfidence(beacons[i])
        /\ RLess(<<3, 10>>, beacons[i].confidence)

\* What the code does keep of C21: the formula holds for every candidate
\* whose port is a member of COMMON_PORTS or lies in 1024..65535, and every
\* emitted candidate has a confidence above 0.3.
BeaconConfidenceOffLowPorts ==
    \A i \in DOMAIN beacons :
        /\ (beacons[i].dest_port \in COMMON_PORTS \cup (1024..65535)) =>
               beacons[i].confidence = StatedBeaconConfidence(beacons[i])
        /\ RLess(<<3, 10>>, beacons[i].confidence)

\* min(0.9, ports/100 + 0.5*ratio) and the severity bands of it.
StatedScanConfidence(n, ratio) ==
    RMin(<<9, 10>>, RAdd(R(n, 100), RMul(<<5, 10>>, ratio)))

StatedScanSeverity(confidence) ==
    IF RLess(<<7, 10>>, confidence) THEN "high"
    ELSE IF RLess(<<5, 10>>, confidence) THEN "medium"
    ELSE "low"

\* The ports on which the pair of a scan event was refused.
TouchedPorts(e) == RejectedPorts(<<e.source_ip, e.dest_ip>>)

\* C22: for every port-scan event, suspicious_ratio is the number of touched
\* ports outside the common set (any port of 0..65535) divided by the number
\* of touched ports, confidence is min(0.9, ports/100 + 0.5*suspicious_ratio),
\* and severity is high above 0.7, medium above 0.5, else low.
C22_ScanRatioAndConfidence ==
    \A i \in DOMAIN port_scans :
        LET e == port_scans[i]
            ports == TouchedPorts(e)
            outside == {p \in ports : OutsideWellKnown(p)}
            ratio == R(Cardinality(outside), Cardinality(ports))
        IN  /\ e.details.suspicious_ratio = ratio
            /\ e.confidence = StatedScanConfidence(Cardinality(ports), ratio)
            /\ e.severity = StatedScanSeverity(e.confidence)

\* What the code does keep of C22: the same with the ratio counting only the
\* touched ports of 1024..65535 outside the common set.
ScanRatioCountsHighPorts ==
    \A i \in DOMAIN port_scans :
        LET e == port_scans[i]
            ports == TouchedPorts(e)
            high == {p \in ports : p >= 1024 /\ p <= 65535 /\ p \notin COMMON_PORTS}
            ratio == R(Cardinality(high), Cardinality(ports))
        IN  /\ e.details.suspicious_ratio = ratio
            /\ e.confidence = StatedScanConfidence(Cardinality(ports), ratio)
            /\ e.severity = StatedScanSeverity(e.confidence)

\* The DNS detector has returned its list.
AfterSuspiciousDns == {"stats", "compile", "done"}

DnsQueriesOf(h) ==
    {i \in DOMAIN flow_records :
        flow_records[i].source_ip = h /\ flow_records[i].dest_port = 53}

\* count / max(span_hours, 0.1) over the queries I (not empty).
StatedQueryRate(I) ==
    LET times == {flow_records[i].timestamp.t : i \in I}
        first == CHOOSE t \in times : \A u \in times : t <= u
        last == CHOOSE t \in times : \A u \in times : t >= u
    IN  RDiv(<<Cardinality(I), 1>>, RMax(R(last - first, 3600), <<1, 10>>))

DnsEventsOf(h) == {i \in DOMAIN suspicious_dns : suspicious_dns[i].source_ip = h}

\* C23: once the DNS detector has returned, a source IP has an event if and
\* only if it has at least 50 flows to port 53 and count / max(span_hours, 0.1)
\* is above 1000; the event is the only one of the source, its confidence is
\* min(0.9, rate/5000) and its severity high above 0.7 and medium otherwise; a
\* source with 49 such flows has no event.
C23_DnsTunneling ==
    (DetectorsHaveRun(AfterSuspiciousDns) /\ raised = "") =>
        \A h \in Sources :
            LET I == DnsQueriesOf(h)
            IN  IF Cardinality(I) >= 50 /\ RLess(<<1000, 1>>, StatedQueryRate(I))
                THEN /\ Cardinality(DnsEventsOf(h)) = 1
                     /\ \A i \in DnsEventsOf(h) :
                            /\ suspicious_dns[i].query_count = Cardinality(I)
                            /\ suspicious_dns[i].confidence =
                                   RMin(<<9, 10>>, RDiv(StatedQueryRate(I), <<5000, 1>>))
                            /\ suspicious_dns[i].severity =
                                   IF RLess(<<7, 10>>, suspicious_dns[i].confidence)
                                   THEN "high" ELSE "medium"
                ELSE DnsEventsOf(h) = {}

\* The detector has returned a high event for a source of DnsFlood queries
\* within 300 seconds (3510 per hour, confidence 0.702).
C23_Witness ==
    /\ DetectorsHaveRun(AfterSuspiciousDns)
    /\ raised = ""
    /\ \E h \in Sources :
           /\ Cardinality(DnsQueriesOf(h)) = DnsFlood
           /\ \E i \in DnsEventsOf(h) :
                  /\ suspicious_dns[i].severity = "high"
                  /\ suspicious_dns[i].confidence = R(DnsFlood, 500)

\* The bytes source h sent to peer p.
BytesToPeer(h, p) == BytesAt({i \in OutboundOf(h) : flow_records[i].dest_ip = p})

\* Every flow that reaches h from an external host, peer of h or not.
InboundOf(h) ==
    {i \in DOMAIN flow_records :
        /\ flow_records[i].dest_ip = h
        /\ ~flow_records[i].is_internal_src
        /\ flow_records[i].is_internal_dst}

\* C24: for every exfiltration event, dest_ip is an external peer of the
\* event's source and no other peer of that source received more bytes in
\* sum; dest_port is the destination port of a flow from the source to that
\* peer; total_bytes_in is the sum over the inbound flows that come from peers
\* the source also sent to.
C24_PrimaryDestination ==
    \A k \in DOMAIN exfiltration :
        LET e == exfiltration[k]
            h == e.source_ip
        IN  /\ e.dest_ip \in PeersOf(h)
            /\ \A p \in PeersOf(h) : BytesToPeer(h, p) <= BytesToPeer(h, e.dest_ip)
            /\ \E i \in OutboundOf(h) :
                   /\ flow_records[i].dest_ip = e.dest_ip
                   /\ flow_records[i].dest_port = e.dest_port
            /\ e.total_bytes_in = BytesAt(ReturnOf(h))

\* An event whose primary destination is not the first peer of the list and
\* whose source also received bytes from a host it never sent to.
C24_Witness ==
    \E k \in DOMAIN exfiltration :
        LET e == exfiltration[k]
            h == e.source_ip
            first == CHOOSE i \in OutboundOf(h) : \A j \in OutboundOf(h) : i <= j
        IN  /\ e.dest_ip # flow_records[first].dest_ip
            /\ BytesToPeer(h, flow_records[first].dest_ip) < BytesToPeer(h, e.dest_ip)
            /\ e.total_bytes_in > 0
            /\ e.total_bytes_in < BytesAt(InboundOf(h))

\* The summed bytes of the tuple's connection group.
GroupBytes(key) ==
    SumSeq([i \in DOMAIN flow_records |->
               IF TupleKey(flow_records[i]) = key /\ flow_records[i].duration > 0
               THEN flow_records[i].bytes_sent ELSE 0])

\* 0.5*min(1, hours/24) + 0.3*min(1, bytes/1GiB) + 0.2*port_score.
StatedLongConfidence(seconds, bytes, port_score) ==
    RAdd(RAdd(RMul(<<5, 10>>, RMin(One, R(seconds, 24 * 3600))),
              RMul(<<3, 10>>, RMin(One, R(bytes, GiB)))),
         RMul(<<2, 10>>, port_score))

StatedLongSeverity(confidence, seconds) ==
    IF RLess(<<8, 10>>, confidence) /\ seconds > 12 * 3600 THEN "critical"
    ELSE IF RLess(<<6, 10>>, confidence) /\ seconds > 6 * 3600 THEN "high"
    ELSE IF RLess(<<4, 10>>, confidence) THEN "medium"
    ELSE "low"

LongConnectionsOf(key) ==
    {i \in DOMAIN long_connections :
        <<long_connections[i].source_ip, long_connections[i].dest_ip,
          long_connections[i].dest_port>> = key}

\* The statement of C25 for the tuple key under a given port_score.
LongCandidateAsStated(key, port_score) ==
    LET seconds == GroupDuration(key)
        confidence == StatedLongConfidence(seconds, GroupBytes(key), port_score)
    IN  IF seconds >= 3600 /\ RLess(<<4, 10>>, confidence)
        THEN /\ Cardinality(LongConnectionsOf(key)) = 1
             /\ \A i \in LongConnectionsOf(key) :
                    /\ long_connections[i].confidence = confidence
                    /\ long_connections[i].severity =
                           StatedLongSeverity(confidence, seconds)
        ELSE LongConnectionsOf(key) = {}

\* C25: once the long-connection detector has returned, a (source_ip, dest_ip,
\* dest_port) group over the flows with duration > 0 has a candidate if and
\* only if its summed duration is at least 3600 s and 0.5*min(1, hours/24)
\* + 0.3*min(1, bytes/1GiB) + 0.2*port_score is above 0.4, with port_score 0.8
\* for a port outside the well-known set and 0.4 otherwise; the candidate is
\* critical above 0.8 and 12 hours, high above 0.6 and 6 hours, medium above
\* 0.4, else low.
C25_LongConnection ==
    (DetectorsHaveRun(AfterLongConnections) /\ raised = "") =>
        \A key \in Tuples :
            LongCandidateAsStated(
                key, IF OutsideWellKnown(key[3]) THEN <<8, 10>> ELSE <<4, 10>>)

\* What the code does keep of C25: the same with port_score 0.8 only for the
\* ports of 1024..65535 outside the well-known set.
LongConnectionHighPorts ==
    (DetectorsHaveRun(AfterLongConnections) /\ raised = "") =>
        \A key \in Tuples :
            LongCandidateAsStated(
                key, IF key[3] >= 1024 /\ key[3] <= 65535 /\ key[3] \notin COMMON_PORTS
                     THEN <<8, 10>> ELSE <<4, 10>>)

\* What analysis a returned, and the threats in it.
RitaResultOf(a) ==
    CASE a = "beacons" -> beacon_result
      [] a = "long_connections" -> long_conn_result
      [] a = "dns_tunneling" -> dns_result

RitaThreatsOf(a) == IF RitaResultOf(a).success THEN RitaResultOf(a)[a] ELSE <<>>

\* The query of analysis a raised, failed, or returned no record.
QueryGaveNothing(a) ==
    \/ rita_queries[a].kind = "raises"
    \/ ~rita_queries[a].success
    \/ rita_queries[a].results = <<>>

\* Threat t restates a record the beacon query returned.
DerivedFromRecords(t) ==
    /\ ~QueryGaveNothing("beacons")
    /\ t.type = "beacon"
    /\ \E i \in DOMAIN rita_queries["beacons"].results :
           /\ rita_queries["beacons"].results[i].Count.kind = "int"
           /\ t.connection_count = rita_queries["beacons"].results[i].Count.v
           /\ t.details = [action_pattern |-> rita_queries["beacons"].results[i].Action,
                           beacon_type |-> "Network action pattern"]

\* C26: an analysis of RITAAnalyzer whose query failed, raised or returned no
\* record returns a result without threats, and every threat of a summary
\* restates a record a query returned.
C26_NoFabricatedThreats ==
    /\ \A a \in RitaAnalyses :
           (RitaResultOf(a) # NoResult /\ QueryGaveNothing(a)) => RitaThreatsOf(a) = <<>>
    /\ (rita_call = "summary" /\ rita_pc = "done") =>
           \A i \in DOMAIN rita_result.threats : DerivedFromRecords(rita_result.threats[i])

\* What the code does instead: every analysis returns success, and an
\* analysis whose query gave nothing returns the demo threats of its type.
DemoThreatsWhenQueryGaveNothing ==
    \A a \in RitaAnalyses :
        RitaResultOf(a) # NoResult =>
            /\ RitaResultOf(a).success
            /\ QueryGaveNothing(a) =>
                   /\ RitaThreatsOf(a) # <<>>
                   /\ \A i \in DOMAIN RitaThreatsOf(a) :
                          RitaThreatsOf(a)[i].id[1] \in
                              {"beacon_demo", "long_conn_demo", "dns_tunnel_demo"}

\* C27: for every raw input of at most 50,000 records the full pipeline
\* (normalizer, then exfiltration detector) reports no exfiltration event:
\* every normalized flow has bytes_sent = 1024, so the outbound bytes of a
\* source are 1024 times the number of its outbound flows, at most 1024 times
\* the number of raw records, and 50,000 * 1024 is below the 100 MiB the
\* detector requires (50,000 is at most the largest n with n * 1024 < 100 MiB);
\* the query itself asks for at most 50,000 records.
C27_NoExfiltrationFromNormalizedFlows ==
    /\ QueryRecordCap <= (EXFIL_MIN_BYTES - 1) \div DefaultBytesSent
    /\ max_records(time_period_minutes) <= QueryRecordCap
    /\ Len(raw) <= QueryRecordCap
    /\ Len(flow_records) <= Len(raw)
    /\ \A i \in DOMAIN flow_records : flow_records[i].bytes_sent = DefaultBytesSent
    /\ \A h \in Sources :
           /\ BytesAt(OutboundOf(h)) = DefaultBytesSent * Cardinality(OutboundOf(h))
           /\ BytesAt(OutboundOf(h)) <= DefaultBytesSent * Len(raw)
           /\ BytesAt(OutboundOf(h)) < EXFIL_MIN_BYTES
    /\ exfiltration = <<>>
    /\ SuccessfulReport =>
           /\ result.analysis_details.data_exfiltration = 0
           /\ result.stats.data_exfiltration = 0
           /\ \A i \in DOMAIN result.threats :
                  result.threats[i].type # "data_exfiltration"

\* The report is out for raw records in which an internal source sent to
\* several external destinations and received nothing back (an unbounded
\* ratio), the exfiltration detector has run, and no event is reported.
C27_Witness ==
    /\ SuccessfulReport
    /\ "data_exfiltration" \in {order[i] : i \in DOMAIN order}
    /\ \E h \in Sources :
           /\ Cardinality(PeersOf(h)) = MaxDests
           /\ InboundOf(h) = {}
    /\ result.analysis_details.data_exfiltration = 0

\* The threats of the report that carry the severity level.
ThreatsOfSeverity(level) ==
    {i \in DOMAIN result.threats : result.threats[i].severity = level}

\* C28: in every successful report the four severity counts partition the
\* threats: critical_threats + high_threats + medium_threats + low_threats =
\* total_threats, and each count is the number of entries of the threats list
\* that carry that severity.
C28_SeverityCountsPartition ==
    SuccessfulReport =>
        /\ result.stats.critical_threats + result.stats.high_threats
               + result.stats.medium_threats + result.stats.low_threats
           = result.stats.total_threats
        /\ result.stats.critical_threats = Cardinality(ThreatsOfSeverity("critical"))
        /\ result.stats.high_threats = Cardinality(ThreatsOfSeverity("high"))
        /\ result.stats.medium_threats = Cardinality(ThreatsOfSeverity("medium"))
        /\ result.stats.low_threats = Cardinality(ThreatsOfSeverity("low"))

\* A successful report lists threats of four types, and each of the four
\* severities is carried by one of them.
C28_Witness ==
    /\ SuccessfulReport
    /\ {result.threats[i].type : i \in DOMAIN result.threats}
           = {"beacon", "long_connection", "port_scan", "dns_tunneling"}
    /\ \A l \in SeverityLevels : ThreatsOfSeverity(l) # {}

\* The severities of the candidates in the list of detector d.
SeveritiesEmitted(d) == {ListOf(d)[i].severity : i \in DOMAIN ListOf(d)}

\* C29: every emitted long-connection candidate and every emitted
\* exfiltration event has severity medium, high or critical (its confidence
\* passed a filter at least as strict as the medium threshold 0.4); port-scan
\* events are never critical; DNS-tunneling events are only medium or high;
\* so a threat of severity low is a beacon or a port scan.
C29_SeverityFloors ==
    /\ SeveritiesEmitted("long_connections") \subseteq {"medium", "high", "critical"}
    /\ \A i \in DOMAIN long_connections : RLess(<<4, 10>>, long_connections[i].confidence)
    /\ SeveritiesEmitted("data_exfiltration") \subseteq {"medium", "high", "critical"}
    /\ \A i \in DOMAIN exfiltration : RLess(<<4, 10>>, exfiltration[i].confidence)
    /\ SeveritiesEmitted("port_scans") \subseteq {"low", "medium", "high"}
    /\ SeveritiesEmitted("suspicious_dns") \subseteq {"medium", "high"}
    /\ SuccessfulReport =>
           \A i \in DOMAIN result.threats :
               result.threats[i].severity = "low" =>
                   result.threats[i].type \in {"beacon", "port_scan"}

\* A report holds a beacon and a port scan of severity low next to a
\* long connection and a DNS event, neither of them low.
C29_Witness ==
    /\ SuccessfulReport
    /\ "low" \in SeveritiesEmitted("beacons")
    /\ "low" \in SeveritiesEmitted("port_scans")
    /\ long_connections # <<>>
    /\ suspicious_dns # <<>>
    /\ \E i, j \in DOMAIN result.threats :
           /\ result.threats[i].type = "beacon" /\ result.threats[i].severity = "low"
           /\ result.threats[j].type = "port_scan" /\ result.threats[j].severity = "low"

\* The grouping key of candidate c of detector d.
GroupingKey(d, c) ==
    CASE d \in {"beacons", "long_connections"} -> <<c.source_ip, c.dest_ip, c.dest_port>>
      [] d = "port_scans" -> <<c.source_ip, c.dest_ip>>
      [] d \in {"data_exfiltration", "suspicious_dns"} -> <<c.source_ip>>

\* C30: within one report no two threats have the same id: each detector
\* emits at most one candidate per grouping key (beacon and long connection
\* per (source_ip, dest_ip, dest_port), exfiltration per internal source, port
\* scan per (source_ip, dest_ip), DNS per source_ip), and the ids of different
\* types differ.
C30_UniqueThreatIds ==
    /\ \A d \in Detectors : \A i, j \in DOMAIN ListOf(d) :
           i # j => GroupingKey(d, ListOf(d)[i]) # GroupingKey(d, ListOf(d)[j])
    /\ SuccessfulReport =>
           \A i, j \in DOMAIN result.threats :
               i # j => result.threats[i].id # result.threats[j].id

\* A report lists a beacon and a long connection of one and the same
\* (source_ip, dest_ip, dest_port), and a port scan and a DNS event of one
\* and the same source.
C30_Witness ==
    /\ SuccessfulReport
    /\ \E i \in DOMAIN beacons : \E j \in DOMAIN long_connections :
           GroupingKey("beacons", beacons[i])
               = GroupingKey("long_connections", long_connections[j])
    /\ \E i \in DOMAIN port_scans : \E j \in DOMAIN suspicious_dns :
           port_scans[i].source_ip = suspicious_dns[j].source_ip
    /\ Len(result.threats) >= 4

====
